---- MODULE Spec2Model ----
(***************************************************************************)
(* Model of the adaptive multi-tier extraction pipeline of the Lyftr       *)
(* scraper backend: scrape_endpoint (backend/main.py), static_scrape        *)
(* (backend/scraper/static_fetch.py), parse_sections_from_soup              *)
(* (backend/scraper/parsers/sections.py) and the browser tiers              *)
(* (backend/scraper/playwright_scraper.py).                                 *)
(*                                                                         *)
(* Strings are abstracted where only their length and their prefixes are   *)
(* read by the code:                                                        *)
(*   - a text is its length (len(text), and text == "" iff length 0);       *)
(*   - a serialized markup string is a record [len, pre, mid, suf]: its     *)
(*     length and the identities of its characters [0,200), [200,2000)      *)
(*     and [2000,len), the two places where the code slices it;             *)
(*   - an error message is one of a few representative strings.             *)
(***************************************************************************)
EXTENDS Integers, Sequences, FiniteSets, TLC

VARIABLES
    body,        \* the request body's "url" field (main.py:52)
    pc,          \* position of the controller inside scrape_endpoint
    text,        \* the static body: [empty |-> BOOLEAN, doc |-> document]
    result,      \* the accumulated ExtractionResult (main.py:67)
    js_result,   \* the current browser-tier result, NoJs while None
    response,    \* what scrape_endpoint hands back
    calls,       \* history: the tiers the controller has called, in order
    entered,     \* history: the tiers whose function body was entered
    raised,      \* history: every failure caught at its origin, in order
    snap,        \* history: the accumulated result before the last merge
    merges,      \* history: the merges applied by the merge-engine harness
    gets,        \* history: the outcomes of the GETs of static_scrape, in order
    tier_results,\* history: what each browser tier that ran returned, in order
    frame,       \* the locals of the browser-tier function that is running
    session,     \* the Playwright driver, browser, context and page of that tier
    site,        \* the pages the browser is shown: a pagination chain
    reqs,        \* concurrent requests: the locals of each call of scrape_endpoint
    results,     \* concurrent requests: the result dictionaries that were created
    browsers     \* concurrent requests: the browser instances that were launched

vars == <<body, pc, text, result, js_result, response, calls, entered, raised, snap,
          merges, gets, tier_results, frame, session, site, reqs, results, browsers>>

----------------------------------------------------------------------------
(* Bounds of the model *)

\* longest static document, in landmark/block elements
MaxEls == 3
\* longest rendered document of a browser tier
MaxRendered == 1
\* number of merges the merge-engine harness applies
MaxMerges == 2
\* longest pagination chain of a site
MaxChain == 4
\* number of requests that run concurrently
NumRequests == 2

(* Program constants *)

\* sufficiency threshold on the total text length
MinTextLen == 300
\* length of the rawHtml prefix used as deduplication fingerprint
FingerprintLen == 200
\* truncate_html's default limit
HtmlLimit == 2000
\* max_scrolls of the light tier
LightScrolls == 3
\* max_scrolls of the hard tier as the controller calls it
HardScrolls == 8
\* scrolls, clicks and pagination depth of the full tier as the controller calls it
FullScrolls == 5
FullClicks == 5
FullPaginationDepth == 3

----------------------------------------------------------------------------
(* Generic helpers on sequences *)

Min(a, b) == IF a <= b THEN a ELSE b

Range(s) == {s[i] : i \in 1..Len(s)}

NoDuplicates(s) == \A i, j \in 1..Len(s) : i /= j => s[i] /= s[j]

\* all sequences over S of length 0..n
SeqsUpTo(S, n) == UNION {[1..k -> S] : k \in 0..n}

RECURSIVE SumSeq(_)
SumSeq(s) == IF s = <<>> THEN 0 ELSE Head(s) + SumSeq(Tail(s))

RECURSIVE Flatten(_)
Flatten(ss) == IF ss = <<>> THEN <<>> ELSE Head(ss) \o Flatten(Tail(ss))

\* number of entries of s equal to x
Count(s, x) == Cardinality({i \in 1..Len(s) : s[i] = x})

----------------------------------------------------------------------------
(* Serialized markup: [len, pre, mid, suf] *)

EmptyStr == [len |-> 0, pre |-> <<>>, mid |-> <<>>, suf |-> <<>>]

\* a markup string of length n whose characters are identified by the tuples
\* p (first FingerprintLen characters) and r (the rest)
Markup(n, p, r) ==
    [len |-> n, pre |-> p,
     mid |-> IF n > FingerprintLen THEN r ELSE <<>>,
     suf |-> IF n > HtmlLimit THEN r ELSE <<>>]

\* Python's s[:n], for n one of FingerprintLen, HtmlLimit
Slice(s, n) ==
    IF s.len <= n THEN s
    ELSE [len |-> n, pre |-> s.pre,
          mid |-> IF n > FingerprintLen THEN s.mid ELSE <<>>,
          suf |-> <<>>]

\* truncate_html whose flag compares the length with FingerprintLen
truncate_htmlFlagAtFingerprint(html) ==
    [raw |-> Slice(html, HtmlLimit), truncated |-> html.len > FingerprintLen]

\* utils.truncate_html with its default limit: (html[:limit], len(html) > limit)
truncate_html(html) ==
    [raw |-> Slice(html, HtmlLimit), truncated |-> html.len > HtmlLimit]

----------------------------------------------------------------------------
(* Documents: a head (the metadata sources) and the elements that          *)
(* soup.find_all enumerates, in document order.  An element is its tag,    *)
(* the length of el.get_text(" ", strip=True) and str(el).                 *)

El(tag, txt, html) == [tag |-> tag, text |-> txt, html |-> html, kids |-> <<>>]

\* an element with child elements: its text and its markup include theirs
ElWith(tag, txt, html, kids) == [tag |-> tag, text |-> txt, html |-> html, kids |-> kids]

NavA        == El("nav", 40, Markup(180, <<"nav-a">>, <<>>))
MainBig     == El("main", 400, Markup(2600, <<"main-a">>, <<"big">>))
\* the shell of MainBig before scripts have run: the same first FingerprintLen
\* characters, little text
MainLoading == El("main", 60, Markup(260, <<"main-a">>, <<"loading">>))
FooterA     == El("footer", 30, Markup(120, <<"footer-a">>, <<>>))
\* a main element whose markup differs from MainBig's from the start
MainAlt     == El("main", 500, Markup(1800, <<"main-c">>, <<"alt">>))
\* text outside every landmark element
DivText     == El("div", 350, Markup(900, <<"div-a">>, <<"div">>))

\* a header holding only a logo image, and a nav holding only icons: no text
HeaderEmpty == El("header", 0, Markup(90, <<"header-img">>, <<>>))
NavEmpty    == El("nav", 0, Markup(60, <<"nav-icons">>, <<>>))
HeaderA     == El("header", 50, Markup(300, <<"header-a">>, <<"a">>))
HeaderB     == El("header", 70, Markup(400, <<"header-b">>, <<"b">>))
SectionA    == El("section", 120, Markup(500, <<"section-a">>, <<"a">>))
ArticleA    == El("article", 200, Markup(2000, <<"article-a">>, <<"a">>))
\* a main element that contains SectionA
MainNested  == ElWith("main", 320, Markup(1500, <<"main-n">>, <<"nested">>), <<SectionA>>)
\* headings, and blocks that are no landmark and contain headings
H2B         == El("h2", 15, Markup(25, <<"h2-b">>, <<>>))
DivHeaded   == ElWith("div", 350, Markup(900, <<"div-h">>, <<"headed">>),
                      <<El("h1", 20, Markup(30, <<"h1-a">>, <<>>))>>)
DivTwoHeads == ElWith("div", 240, Markup(700, <<"div-2h">>, <<"two">>),
                      <<H2B, El("h3", 10, Markup(20, <<"h3-c">>, <<>>))>>)

\* the elements of the documents the static fetch returns
Elements == {NavA, MainBig, MainLoading, FooterA}

\* the elements of the documents a browser tier renders
RenderedElements == {MainBig, MainAlt, DivText}

None == "None"

Truthy(v) == v /= "" /\ v /= None

Head0 == [ogTitle |-> "", title |-> "", description |-> "", lang |-> "", canonical |-> ""]
HeadOg == [ogTitle |-> "OG title", title |-> "Title", description |-> "Desc",
           lang |-> "en", canonical |-> ""]
HeadPlain == [ogTitle |-> "", title |-> "Rendered title", description |-> "",
              lang |-> "de", canonical |-> "https://a/canonical"]

Doc(h, e) == [head |-> h, els |-> e]

StaticDocs == {Doc(h, e) : h \in {Head0, HeadOg}, e \in SeqsUpTo(Elements, MaxEls)}

RenderedDocs ==
    {Doc(h, e) : h \in {Head0, HeadPlain}, e \in SeqsUpTo(RenderedElements, MaxRendered)}

\* the elements of the documents the segmentation engine is exercised on
ParseElements ==
    {HeaderEmpty, HeaderA, HeaderB, NavA, NavEmpty, MainNested, SectionA, ArticleA,
     FooterA, DivHeaded, DivTwoHeads, H2B, DivText}

ParseDocs == {Doc(Head0, e) : e \in SeqsUpTo(ParseElements, MaxEls)}

\* BeautifulSoup("<html></html>"): what the controller parses for an empty body
EmptyDoc == Doc(Head0, <<>>)

----------------------------------------------------------------------------
(* Segmentation engine: parsers/sections.py *)

landmark_tags == <<"header", "nav", "main", "section", "article", "footer">>

\* the elements in document order: an element, then what it contains
RECURSIVE Descendants(_)
Descendants(els) ==
    IF els = <<>> THEN <<>>
    ELSE <<Head(els)>> \o Descendants(Head(els).kids) \o Descendants(Tail(els))

\* soup.find_all(tag): the elements of that tag, in document order
find_all(doc, tag) == SelectSeq(Descendants(doc.els), LAMBDA el : el.tag = tag)

\* the landmark elements in the order the two nested loops visit them
LandmarkOrder(doc) ==
    Flatten([i \in 1..Len(landmark_tags) |-> find_all(doc, landmark_tags[i])])

\* sections.py:38-42
\* (the four tests are on different tags: at most one of them holds)
SecType(tag, idx) ==
    IF tag = "nav" THEN "nav"
    ELSE IF tag = "header" /\ idx = 0 THEN "hero"
    ELSE IF tag = "footer" THEN "footer"
    ELSE IF tag = "main" THEN "section"
    ELSE "unknown"

\* the id f"{tag}-{idx}" is kept as the pair it is formatted from: tags hold
\* neither digits nor "-", so the formatting is injective
SecId(tag, idx) == <<tag, idx>>

Section(id, type, url, txt, html) ==
    [id |-> id, type |-> type, sourceUrl |-> url, text |-> txt,
     rawHtml |-> truncate_html(html).raw,
     truncated |-> truncate_html(html).truncated]

\* LandmarkStep without the test of sections.py:28-29 for an empty text
LandmarkStepKeepsEmptyText(st, el, url) ==
    IF el.html \in st.used_html THEN st
    ELSE [sections  |-> Append(st.sections,
                               Section(SecId(el.tag, st.idx), SecType(el.tag, st.idx),
                                       url, el.text, el.html)),
          used_html |-> st.used_html \cup {el.html},
          idx       |-> st.idx + 1]

\* one iteration of the loop body of sections.py:18-60 on element el, from
\* the loop state st = [sections, used_html, idx]
LandmarkStep(st, el, url) ==
    IF el.html \in st.used_html THEN st
    ELSE IF el.text = 0 THEN [st EXCEPT !.used_html = @ \cup {el.html}]
    ELSE [sections  |-> Append(st.sections,
                               Section(SecId(el.tag, st.idx), SecType(el.tag, st.idx),
                                       url, el.text, el.html)),
          used_html |-> st.used_html \cup {el.html},
          idx       |-> st.idx + 1]

RECURSIVE LandmarkLoop(_, _, _)
LandmarkLoop(st, els, url) ==
    IF els = <<>> THEN st
    ELSE LandmarkLoop(LandmarkStep(st, Head(els), url), Tail(els), url)

\* body.get_text(" ", strip=True): the text of the whole document
BodyText(doc) == SumSeq([i \in 1..Len(doc.els) |-> doc.els[i].text])

\* str(body): identified by the elements it serializes
BodyHtml(doc) ==
    Markup(13 + SumSeq([i \in 1..Len(doc.els) |-> doc.els[i].html.len]),
           <<"body", doc.els>>, <<"body", doc.els>>)

\* sections.py:13-60: the loop state after the two nested loops
LandmarkSections(doc, url) ==
    LandmarkLoop([sections |-> <<>>, used_html |-> {}, idx |-> 0], LandmarkOrder(doc), url)

\* sections.py:62-78: the whole-body section when the loops produced none
BodyFallback(sections, doc, url) ==
    IF sections /= <<>> THEN sections
    ELSE IF BodyText(doc) > 0
         THEN <<Section(SecId("body", 0), "unknown", url, BodyText(doc), BodyHtml(doc))>>
         ELSE <<>>

parse_sections_from_soup(doc, url) ==
    BodyFallback(LandmarkSections(doc, url).sections, doc, url)

\* the body element: what find_parent() gives for an element at the top
BodyEl(doc) == ElWith("body", BodyText(doc), BodyHtml(doc), doc.els)

\* the elements in document order, each with its parent
RECURSIVE WithParents(_, _)
WithParents(els, parent) ==
    IF els = <<>> THEN <<>>
    ELSE <<[el |-> Head(els), parent |-> parent]>>
            \o WithParents(Head(els).kids, Head(els))
            \o WithParents(Tail(els), parent)

\* soup.find_all(["h1", "h2", "h3"]) with h.find_parent() of each
HeadingOrder(doc) ==
    SelectSeq(WithParents(doc.els, BodyEl(doc)), LAMBDA h : h.el.tag \in {"h1", "h2", "h3"})

\* one iteration of the heading loop of the module backend/scraper.py
\* (lines 170-202) on heading h, from the loop state st
HeadingStep(st, h, url) ==
    IF h.parent.html \in st.used_html THEN st
    ELSE IF h.parent.text = 0 THEN [st EXCEPT !.used_html = @ \cup {h.parent.html}]
    ELSE [st EXCEPT
            !.sections = Append(@, Section(SecId("heading", Len(st.sections)), "section",
                                           url, h.parent.text, h.parent.html)),
            !.used_html = @ \cup {h.parent.html}]

RECURSIVE HeadingLoop(_, _, _)
HeadingLoop(st, hs, url) ==
    IF hs = <<>> THEN st
    ELSE HeadingLoop(HeadingStep(st, Head(hs), url), Tail(hs), url)

\* parse_sections_from_soup of the module backend/scraper.py, which no
\* module of the service imports: landmark loop, heading scan, whole body
scraper_parse_sections_from_soup(doc, url) ==
    LET st == LandmarkSections(doc, url)
        hd == IF st.sections /= <<>> THEN st
              ELSE HeadingLoop(st, HeadingOrder(doc), url)
    IN BodyFallback(hd.sections, doc, url)

\* sum(len(s["content"]["text"]) for s in sections)
TotalTextLen(sections) == SumSeq([i \in 1..Len(sections) |-> sections[i].text])

\* Insufficient with the threshold applied to each section instead of the total
InsufficientAnySection(sections) ==
    (\E i \in 1..Len(sections) : sections[i].text < MinTextLen) \/ Len(sections) = 0

\* main.py:137, 157: the transition guard "insufficient"
Insufficient(sections) == TotalTextLen(sections) < MinTextLen \/ Len(sections) = 0

----------------------------------------------------------------------------
(* Requests, errors and results *)

Url(scheme, loc) == [scheme |-> scheme, loc |-> loc]

\* body.get("url") of a body without the field, or with an empty one
NoUrl == Url("", "")

\* the URLs requests are made with: urlparse(url).scheme is the scheme field
RequestUrls == {Url("http", "a"), Url("https", "a"), Url("ftp", "a"), Url("", "a.com/x")}

error_obj(message, phase) == [message |-> message, phase |-> phase]

NoMeta == <<>>

EmptyInteractions == [clicks |-> <<>>, scrolls |-> 0, pages |-> <<>>]

\* NewResult with an empty page list, as the tiers' results start
NewResultNoPages(url) ==
    [url |-> url,
     meta |-> [title |-> "", description |-> "", language |-> "", canonical |-> None],
     sections |-> <<>>,
     interactions |-> [clicks |-> <<>>, scrolls |-> 0, pages |-> <<>>],
     errors |-> <<>>]

\* main.py:67-74
NewResult(url) ==
    [url |-> url,
     meta |-> [title |-> "", description |-> "", language |-> "", canonical |-> None],
     sections |-> <<>>,
     interactions |-> [clicks |-> <<>>, scrolls |-> 0, pages |-> <<url>>],
     errors |-> <<>>]

\* the value of result before main.py:67 has run
NoResult == [NewResult(NoUrl) EXCEPT !.interactions.pages = <<>>]

\* the result dictionary every browser tier starts from (playwright_scraper.py:189)
NewTierResult == [sections |-> <<>>, meta |-> NoMeta,
                  interactions |-> EmptyInteractions, errors |-> <<>>]

\* js_result = None
NoJs == [none |-> TRUE]

NoResponse == [kind |-> "none"]

NoText == [empty |-> TRUE, doc |-> EmptyDoc]

\* no browser-tier function is running
NoFrame == [fn |-> "none", current |-> NoUrl, depth |-> 0, visited_pages |-> {},
            exc |-> None, i |-> 0, last_height |-> 0, clicked |-> 0, absolute |-> NoUrl]

\* no Playwright driver has been started; navs, failed, scrolled, clicked,
\* extracted and pag are what the browser has seen: the gotos of the tier,
\* the calls that raised, for every page opened the document heights after
\* each scroll performed, the elements that were clicked, the URLs whose
\* content was read, and the calls of the pagination helper
NoSession == [playwright |-> "none", browser |-> "none", context |-> "none",
              navs |-> <<>>, failed |-> <<>>, scrolled |-> <<>>, clicked |-> <<>>,
              extracted |-> <<>>, pag |-> <<>>]

----------------------------------------------------------------------------
(* Static fetch stage: scraper/static_fetch.py *)

NetErr == "neterr"

\* what one client.get can do: fail, or answer with a status
GetOutcomes == {NetErr, "200", "403", "404"}

\* Response.raise_for_status()
RaisesForStatus(status) == status \in {"403", "404"}

Raise(msg) == [raised |-> TRUE, msg |-> msg, value |-> NoText, gets |-> 0]

\* static_scrape with the retry made after every error status
static_scrapeRetryAnyStatus(r1, r2, txt) ==
    IF r1 = NetErr THEN [Raise("connect error") EXCEPT !.gets = 1]
    ELSE IF RaisesForStatus(r1)
         THEN IF r2 = NetErr THEN [Raise("connect error") EXCEPT !.gets = 2]
              ELSE IF RaisesForStatus(r2) THEN [Raise(r2) EXCEPT !.gets = 2]
              ELSE [raised |-> FALSE, msg |-> "", value |-> txt, gets |-> 2]
    ELSE [raised |-> FALSE, msg |-> "", value |-> txt, gets |-> 1]

\* static_scrape with the status of the first response raised after the retry
static_scrapeRaiseFirst(r1, r2, txt) ==
    IF r1 = NetErr THEN [Raise("connect error") EXCEPT !.gets = 1]
    ELSE IF r1 = "403"
         THEN IF r2 = NetErr THEN [Raise("connect error") EXCEPT !.gets = 2]
              ELSE [Raise(r1) EXCEPT !.gets = 2]
    ELSE IF RaisesForStatus(r1) THEN [Raise(r1) EXCEPT !.gets = 1]
    ELSE [raised |-> FALSE, msg |-> "", value |-> txt, gets |-> 1]

\* static_scrape(url): r1 and r2 are the outcomes of the first GET and of the
\* retry, txt the body the server sends with a response
static_scrape(r1, r2, txt) ==
    IF r1 = NetErr THEN [Raise("connect error") EXCEPT !.gets = 1]
    ELSE IF r1 = "403"
         THEN IF r2 = NetErr THEN [Raise("connect error") EXCEPT !.gets = 2]
              ELSE IF RaisesForStatus(r2) THEN [Raise(r2) EXCEPT !.gets = 2]
              ELSE [raised |-> FALSE, msg |-> "", value |-> txt, gets |-> 2]
    ELSE IF RaisesForStatus(r1) THEN [Raise(r1) EXCEPT !.gets = 1]
    ELSE [raised |-> FALSE, msg |-> "", value |-> txt, gets |-> 1]

\* the User-Agent of default_headers and of browser_headers
DefaultHeaders == "Lyftr-Assignment-Bot/1.0"

BrowserHeaders == "Mozilla/5.0 (Windows NT 10.0; Win64; x64) Chrome/125.0.0.0 Safari/537.36"

\* the headers of the k-th client.get of a call (lines 18 and 21)
HeadersOfGet(k) == IF k = 1 THEN DefaultHeaders ELSE BrowserHeaders

\* one GET as the server saw it: the headers it came with, the status it was
\* answered with (or the failure of the connection) and the page body sent,
\* which only a 200 carries
GetResponse(headers, status, txt) ==
    [headers |-> headers, status |-> status,
     body |-> IF status = "200" THEN txt ELSE NoText]

\* f"Static fetch failed: {str(e)}"
FetchFailedMsg(cause) ==
    CASE cause = "403" -> "Static fetch failed: 403"
      [] cause = "404" -> "Static fetch failed: 404"
      [] OTHER -> "Static fetch failed: connect error"

----------------------------------------------------------------------------
(* Metadata extraction *)

\* main.py:96-118: the static parse's metadata
StaticMeta(doc) ==
    [title |-> IF doc.head.ogTitle /= "" THEN doc.head.ogTitle ELSE doc.head.title,
     description |-> doc.head.description,
     language |-> doc.head.lang,
     canonical |-> IF doc.head.canonical /= "" THEN doc.head.canonical ELSE None]

\* playwright_scraper.py:165-182 (the hrefs of the model are absolute, which
\* urljoin returns unchanged)
extract_meta(doc) ==
    [title |-> doc.head.title,
     description |-> doc.head.description,
     canonical |-> IF doc.head.canonical /= "" THEN doc.head.canonical ELSE None,
     language |-> doc.head.lang]

----------------------------------------------------------------------------
(* Error messages of the browser tiers, and the blocking-keyword test *)

MsgTimeout == "Timeout 30000ms exceeded"
MsgBlocked == "Page.goto: net::ERR_BLOCKED_BY_CLIENT"
MsgDenied == "Access Denied"
Msg403 == "Server returned 403"
MsgTypeError == "js_scrape_full() got an unexpected keyword argument 'pagination_depth'"

TierMessages == {MsgTimeout, MsgBlocked, MsgDenied, Msg403}

\* str.lower() on the messages of the model
lower(msg) ==
    CASE msg = MsgTimeout -> "timeout 30000ms exceeded"
      [] msg = MsgBlocked -> "page.goto: net::err_blocked_by_client"
      [] msg = MsgDenied -> "access denied"
      [] msg = Msg403 -> "server returned 403"
      [] OTHER -> msg

\* kw in s, for the lower-cased messages of the model
Contains(kw, s) ==
    \/ kw = "blocked" /\ s = "page.goto: net::err_blocked_by_client"
    \/ kw = "access denied" /\ s = "access denied"
    \/ kw = "403" /\ s \in {"server returned 403", "Server returned 403"}

\* HasBlockingKeyword without the lower() of main.py:150
HasBlockingKeywordCaseSensitive(errors) ==
    \E i \in 1..Len(errors) :
        \E kw \in {"403", "blocked", "access denied"} : Contains(kw, errors[i].message)

\* main.py:148-153
HasBlockingKeyword(errors) ==
    \E i \in 1..Len(errors) :
        \E kw \in {"403", "blocked", "access denied"} : Contains(kw, lower(errors[i].message))

----------------------------------------------------------------------------
(* Browser tiers: scraper/playwright_scraper.py *)

\* How a page answers scrolling: document.body.scrollHeight grows with each
\* of the first `grow` scrolls and then stays; evaluate raises in scroll
\* number raise_at (0: never), either at the scrollTo or at the height read
ScrollProfile(grow, raise_at, raise_in) ==
    [grow |-> grow, raise_at |-> raise_at, raise_in |-> raise_in]

HeightAfter(profile, i) == 100 * Min(i, profile.grow)

\* smart_scroll's loop from iteration i: returns the scrolls counted
RECURSIVE ScrollFrom(_, _, _, _, _)
ScrollFrom(profile, max_scrolls, i, last_height, cnt) ==
    IF i > max_scrolls THEN cnt
    ELSE IF profile.raise_at = i /\ profile.raise_in = "scroll" THEN cnt
    ELSE IF profile.raise_at = i THEN cnt + 1
    ELSE IF HeightAfter(profile, i) = last_height THEN cnt + 1
    ELSE ScrollFrom(profile, max_scrolls, i + 1, HeightAfter(profile, i), cnt + 1)

\* smart_scroll(page, max_scrolls, result): what it adds to interactions.scrolls
smart_scroll(profile, max_scrolls) == ScrollFrom(profile, max_scrolls, 1, 0, 0)

RenderError(msg) == [message |-> msg, phase |-> "render"]

\* the content a tier captures from the rendered document (lines 217-222)
Captured(res, doc, url) ==
    [res EXCEPT !.meta = extract_meta(doc),
                !.sections = parse_sections_from_soup(doc, url),
                !.interactions.pages = <<url>>]

\* js_scrape_with_playwright(url, max_scrolls), given what the browser does:
\* o.stage is the step that raises ("ok": none), o.msg the exception's text,
\* o.doc the rendered document, o.scroll the page's scroll profile
js_scrape_with_playwright(url, max_scrolls, o) ==
    LET failed == [NewTierResult EXCEPT !.errors = <<RenderError(o.msg)>>]
        scrolled(r) == [r EXCEPT !.interactions.scrolls = smart_scroll(o.scroll, max_scrolls)]
    IN CASE o.stage = "launch" -> failed
         [] o.stage = "goto" -> failed
         [] o.stage = "content" -> scrolled(failed)
         [] o.stage = "close" -> Captured(scrolled(failed), o.doc, url)
         [] OTHER -> Captured(scrolled(NewTierResult), o.doc, url)

\* js_scrape_hard(url, max_scrolls, headless): its scroll loop has no handler
\* of its own, so a raising evaluate ends the tier
js_scrape_hard(url, max_scrolls, o) ==
    LET failed == [NewTierResult EXCEPT !.errors = <<RenderError(o.msg)>>]
        raising == o.scroll.raise_at \in 1..max_scrolls
        scrolled(r) == [r EXCEPT !.interactions.scrolls =
                           IF raising THEN o.scroll.raise_at - 1 ELSE max_scrolls]
    IN CASE o.stage = "launch" -> failed
         [] o.stage = "goto" -> failed
         [] raising -> scrolled(failed)
         [] o.stage = "content" -> scrolled(failed)
         [] o.stage = "close" -> Captured(scrolled(failed), o.doc, url)
         [] OTHER -> Captured(scrolled(NewTierResult), o.doc, url)

\* the first n entries of s
TakeSeq(s, n) == SubSeq(s, 1, Min(n, Len(s)))

\* One page of a pagination chain, as the full tier meets it: its URL, the
\* document it renders, its scroll profile, the texts of the elements its
\* click selectors match
ChainPage(url, doc, scroll, clickable) ==
    [url |-> url, doc |-> doc, scroll |-> scroll, clickable |-> clickable]

\* the while loop of js_scrape_full (lines 326-356) from page i of the chain;
\* chain[i+1], when there is one, is where page i's next-page control leads;
\* fail_at is the page whose navigation raises (0: none)
RECURSIVE FullLoop(_, _, _, _, _, _, _, _)
FullLoop(chain, i, scrolls, clicks, pagination_limit, fail_at, msg, acc) ==
    IF i > Len(chain) \/ ~(i - 1 < pagination_limit) THEN acc.res
    ELSE
      LET pg == chain[i]
          visited == acc.visited \cup {pg.url}
          opened == [acc.res EXCEPT !.interactions.pages = Append(@, pg.url)]
          done == [opened EXCEPT
                     !.interactions.scrolls = @ + smart_scroll(pg.scroll, scrolls),
                     !.interactions.clicks = @ \o TakeSeq(pg.clickable, clicks),
                     !.meta = IF i = 1 THEN extract_meta(pg.doc) ELSE @,
                     !.sections = @ \o parse_sections_from_soup(pg.doc, pg.url)]
      IN IF fail_at = i THEN [opened EXCEPT !.errors = Append(@, RenderError(msg))]
         ELSE IF i + 1 > Len(chain) THEN done
         ELSE IF chain[i + 1].url \in visited THEN done
         ELSE FullLoop(chain, i + 1, scrolls, clicks, pagination_limit, fail_at, msg,
                       [visited |-> visited,
                        res |-> [done EXCEPT !.interactions.pages =
                                                Append(@, chain[i + 1].url)]])

\* js_scrape_full(url, scrolls, clicks, pagination_limit, headless)
js_scrape_full(url, scrolls, clicks, pagination_limit, o) ==
    IF o.stage = "launch"
    THEN [NewTierResult EXCEPT !.errors = <<RenderError(o.msg)>>]
    ELSE LET r == FullLoop(o.chain, 1, scrolls, clicks, pagination_limit,
                           o.fail_at, o.msg, [visited |-> {}, res |-> NewTierResult])
         IN IF o.stage = "close" /\ o.fail_at = 0
            THEN [r EXCEPT !.errors = Append(@, RenderError(o.msg))]
            ELSE r

----------------------------------------------------------------------------
(* What the browser can do in one tier *)

\* the scroll profiles the controller's tiers are run on: a page that never
\* grows and one that grows with every scroll
ScrollProfiles == {ScrollProfile(0, 0, "scroll"), ScrollProfile(HardScrolls, 0, "scroll")}

\* a rendering caught before the page's script has filled it
LoadingDoc == Doc(Head0, <<MainLoading>>)

TierFailure(stage, msg) ==
    [stage |-> stage, msg |-> msg, doc |-> EmptyDoc, scroll |-> ScrollProfile(0, 0, "scroll")]

TierOutcomes ==
    {TierFailure(st, m) : st \in {"launch", "goto", "content"}, m \in TierMessages}
    \cup {[stage |-> "ok", msg |-> MsgTimeout, doc |-> d, scroll |-> sp] :
             d \in RenderedDocs, sp \in ScrollProfiles}
    \cup {[stage |-> "close", msg |-> m, doc |-> d, scroll |-> ScrollProfile(0, 0, "scroll")] :
             m \in {MsgTimeout, MsgBlocked}, d \in RenderedDocs}
    \cup {[stage |-> "ok", msg |-> MsgTimeout, doc |-> LoadingDoc,
           scroll |-> ScrollProfile(0, 0, "scroll")]}

FullOutcomes ==
    {[stage |-> "launch", msg |-> m, chain |-> <<>>, fail_at |-> 0] : m \in TierMessages}
    \cup {[stage |-> "ok", msg |-> MsgTimeout, fail_at |-> f,
           chain |-> <<ChainPage(Url("https", "a"), d1, sp, <<"More">>),
                       ChainPage(Url("https", "a?p=2"),
                                 IF same THEN d1 ELSE Doc(Head0, <<MainAlt>>), sp, <<>>)>>] :
             f \in 0..2, d1 \in RenderedDocs, same \in BOOLEAN, sp \in ScrollProfiles}

\* what the full and the hard tier can do when the controller calls them
EscalateFullOutcomes ==
    {[stage |-> "launch", msg |-> MsgBlocked, chain |-> <<>>, fail_at |-> 0]}
    \cup {[stage |-> "ok", msg |-> MsgTimeout, fail_at |-> f,
           chain |-> <<ChainPage(Url("https", "a"), Doc(HeadPlain, <<d>>),
                                 ScrollProfile(HardScrolls, 0, "scroll"), <<"More">>),
                       ChainPage(Url("https", "a?p=2"), Doc(Head0, <<MainAlt>>),
                                 ScrollProfile(0, 0, "scroll"), <<>>)>>] :
             f \in {0, 2}, d \in {MainBig, FooterA}}

EscalateHardOutcomes ==
    {TierFailure("goto", MsgDenied)}
    \cup {[stage |-> "ok", msg |-> MsgTimeout, doc |-> Doc(HeadPlain, <<d>>),
           scroll |-> ScrollProfile(0, 0, "scroll")] : d \in {MainAlt, DivText}}

----------------------------------------------------------------------------
(* Python's binding of keyword arguments at the call of main.py:163 *)

\* the parameters of js_scrape_full (playwright_scraper.py:292-298)
FullParams == {"url", "scrolls", "clicks", "pagination_limit", "headless"}

\* the keywords the controller passes: js_scrape_full(url, scrolls=5, clicks=5,
\* pagination_depth=3, headless=False)
FullCallKeywords == {"scrolls", "clicks", "pagination_depth", "headless"}

\* a call with a keyword that is no parameter raises TypeError before the
\* function body runs
FullCallBinds == FullCallKeywords \subseteq FullParams

----------------------------------------------------------------------------
(* Merge engine: main.py:182-206 *)

\* MergeMeta without the test on the accumulated value
MergeMetaOverwrite(meta, js_meta) ==
    [k \in DOMAIN meta \cup {j \in DOMAIN js_meta : Truthy(js_meta[j])} |->
        IF k \in DOMAIN js_meta /\ Truthy(js_meta[k]) THEN js_meta[k] ELSE meta[k]]

\* main.py:184-186
MergeMeta(meta, js_meta) ==
    [k \in DOMAIN meta \cup {j \in DOMAIN js_meta : Truthy(js_meta[j])} |->
        IF k \in DOMAIN js_meta /\ Truthy(js_meta[k])
           /\ ~(k \in DOMAIN meta /\ Truthy(meta[k]))
        THEN js_meta[k]
        ELSE meta[k]]

\* (sec.get("rawHtml") or "")[:200]
Fingerprint(sec) == Slice(sec.rawHtml, FingerprintLen)

\* main.py:190-194, from the loop state st = [sections, existing_raw]
RECURSIVE MergeSectionLoop(_, _)
MergeSectionLoop(st, js_sections) ==
    IF js_sections = <<>> THEN st.sections
    ELSE LET sec == Head(js_sections)
         IN IF Fingerprint(sec) \notin st.existing_raw
            THEN MergeSectionLoop([sections |-> Append(st.sections, sec),
                                   existing_raw |-> st.existing_raw \cup {Fingerprint(sec)}],
                                  Tail(js_sections))
            ELSE MergeSectionLoop(st, Tail(js_sections))

\* MergeSections with the accumulated fingerprints taken without the [:200]
MergeSectionsNoSlice(sections, js_sections) ==
    MergeSectionLoop([sections |-> sections,
                      existing_raw |-> {sections[i].rawHtml : i \in 1..Len(sections)}],
                     js_sections)

\* MergeSections without line 194: the appended snippet is not remembered
MergeSectionsNotRemembered(sections, js_sections) ==
    LET existing_raw == {Fingerprint(sections[i]) : i \in 1..Len(sections)}
        unseen(sec) == Fingerprint(sec) \notin existing_raw
    IN sections \o SelectSeq(js_sections, unseen)

\* main.py:189-194
MergeSections(sections, js_sections) ==
    MergeSectionLoop([sections |-> sections,
                      existing_raw |-> {Fingerprint(sections[i]) : i \in 1..Len(sections)}],
                     js_sections)

\* MergePages as a plain extend
MergePagesExtend(pages, js_pages) == pages \o js_pages

\* main.py:200-202
RECURSIVE MergePages(_, _)
MergePages(pages, js_pages) ==
    IF js_pages = <<>> THEN pages
    ELSE IF Head(js_pages) \in Range(pages) THEN MergePages(pages, Tail(js_pages))
    ELSE MergePages(Append(pages, Head(js_pages)), Tail(js_pages))

\* MergeJs with the scroll counter assigned instead of added
MergeJsScrollsAssigned(res, js) ==
    [res EXCEPT
       !.meta = MergeMeta(@, js.meta),
       !.sections = MergeSections(@, js.sections),
       !.interactions = [clicks |-> @.clicks \o js.interactions.clicks,
                         scrolls |-> js.interactions.scrolls,
                         pages |-> MergePages(@.pages, js.interactions.pages)],
       !.errors = @ \o js.errors]

\* main.py:182-206: the accumulated result after merging js
MergeJs(res, js) ==
    [res EXCEPT
       !.meta = MergeMeta(@, js.meta),
       !.sections = MergeSections(@, js.sections),
       !.interactions = [clicks |-> @.clicks \o js.interactions.clicks,
                         scrolls |-> @.scrolls + js.interactions.scrolls,
                         pages |-> MergePages(@.pages, js.interactions.pages)],
       !.errors = @ \o js.errors]

\* PlaceholderSection with truncated False
PlaceholderSectionNotTruncated(url) ==
    [id |-> SecId("page", 0), type |-> "unknown", sourceUrl |-> url, text |-> 0,
     rawHtml |-> EmptyStr, truncated |-> FALSE]

\* main.py:216-224
PlaceholderSection(url) ==
    [id |-> SecId("page", 0), type |-> "unknown", sourceUrl |-> url, text |-> 0,
     rawHtml |-> EmptyStr, truncated |-> TRUE]

----------------------------------------------------------------------------
(* The escalation controller: scrape_endpoint, main.py:47-227 *)

\* Validate without the test on the scheme
ValidateNoSchemeCheck ==
    /\ pc = "start"
    /\ IF body = NoUrl
       THEN /\ response' = [kind |-> "http_exception", status |-> 400,
                            detail |-> "Missing 'url' field"]
            /\ pc' = "done"
            /\ UNCHANGED result
       ELSE /\ result' = NewResult(body)
            /\ pc' = "static"
            /\ UNCHANGED response
    /\ UNCHANGED <<body, text, js_result, calls, entered, raised, snap, merges, gets,
                   tier_results, frame, session, site, reqs, results, browsers>>

\* main.py:52-74: the checks on the request and the creation of the result
Validate ==
    /\ pc = "start"
    /\ IF body = NoUrl
       THEN /\ response' = [kind |-> "http_exception", status |-> 400,
                            detail |-> "Missing 'url' field"]
            /\ pc' = "done"
            /\ UNCHANGED result
       ELSE IF body.scheme \notin {"http", "https"}
       THEN /\ response' = [kind |-> "rejection", status |-> 400,
                            errors |-> <<error_obj("Unsupported URL scheme", "validation")>>]
            /\ pc' = "done"
            /\ UNCHANGED result
       ELSE /\ result' = NewResult(body)
            /\ pc' = "static"
            /\ UNCHANGED response
    /\ UNCHANGED <<body, text, js_result, calls, entered, raised, snap, merges, gets,
                   tier_results, frame, session, site, reqs, results, browsers>>

\* main.py:79-88: the static fetch
StaticFetch ==
    /\ pc = "static"
    /\ \E r1 \in GetOutcomes, r2 \in GetOutcomes \ {"404"},
          txt \in {NoText} \cup {[empty |-> FALSE, doc |-> d] : d \in StaticDocs} :
          LET out == static_scrape(r1, r2, txt)
              failed == error_obj(FetchFailedMsg(out.msg), "fetch")
              errs1 == IF out.raised THEN <<failed>> ELSE <<>>
              txt1 == IF out.raised THEN NoText ELSE out.value
              errs2 == IF txt1.empty
                       THEN <<error_obj("Static fetch returned empty body", "fetch")>>
                       ELSE <<>>
          IN /\ text' = txt1
             /\ result' = [result EXCEPT !.errors = @ \o errs1 \o errs2]
             /\ raised' = raised \o errs1 \o errs2
             /\ gets' = IF out.gets = 2
                        THEN <<GetResponse(HeadersOfGet(1), r1, txt),
                               GetResponse(HeadersOfGet(2), r2, txt)>>
                        ELSE <<GetResponse(HeadersOfGet(1), r1, txt)>>
    /\ calls' = Append(calls, "static")
    /\ entered' = Append(entered, "static")
    /\ pc' = "parse"
    /\ UNCHANGED <<body, js_result, response, snap, merges, tier_results, frame, session,
                   site, reqs, results, browsers>>

\* main.py:93-130: the parse of the static body.  po is what the parser does:
\* "ok", or BeautifulSoup raising ("soup"), or parse_sections_from_soup
\* raising ("sections")
ParseStatic ==
    /\ pc = "parse"
    /\ \E po \in {"ok", "soup", "sections"} :
          LET doc == IF text.empty THEN EmptyDoc ELSE text.doc
              err == IF po = "soup" THEN <<error_obj("HTML parse error", "parse")>>
                     ELSE IF po = "sections"
                          THEN <<error_obj("Section parsing failed", "parse")>>
                          ELSE <<>>
          IN /\ result' = [result EXCEPT
                             !.meta = IF po = "soup" THEN @ ELSE StaticMeta(doc),
                             !.sections = IF po = "ok"
                                          THEN @ \o parse_sections_from_soup(doc, body)
                                          ELSE @,
                             !.errors = @ \o err]
             /\ raised' = raised \o err
    /\ pc' = "check"
    /\ UNCHANGED <<body, text, js_result, response, calls, entered, snap, merges, gets,
                   tier_results, frame, session, site, reqs, results, browsers>>

\* CheckSufficient that ends the request when the static body is empty
CheckSufficientStopOnEmptyBody ==
    /\ pc = "check"
    /\ pc' = IF Insufficient(result.sections) /\ ~text.empty THEN "light" ELSE "ensure"
    /\ UNCHANGED <<body, text, result, js_result, response, calls, entered, raised, snap,
                   merges, gets, tier_results, frame, session, site, reqs, results,
                   browsers>>

\* main.py:135-137: is the static result sufficient?
CheckSufficient ==
    /\ pc = "check"
    /\ pc' = IF Insufficient(result.sections) THEN "light" ELSE "ensure"
    /\ UNCHANGED <<body, text, result, js_result, response, calls, entered, raised, snap,
                   merges, gets, tier_results, frame, session, site, reqs, results,
                   browsers>>

\* main.py:141-158: the light tier and the decision to escalate
LightTier ==
    /\ pc = "light"
    /\ \E o \in TierOutcomes :
          LET js == js_scrape_with_playwright(body, LightScrolls, o)
              blocked_or_insufficient ==
                  HasBlockingKeyword(js.errors) \/ Insufficient(js.sections)
          IN /\ js_result' = js
             /\ raised' = raised \o js.errors
             /\ tier_results' = Append(tier_results, js)
             /\ pc' = IF blocked_or_insufficient THEN "escalate" ELSE "merge"
    /\ calls' = Append(calls, "light")
    /\ entered' = Append(entered, "light")
    /\ UNCHANGED <<body, text, result, response, snap, merges, gets, frame, session,
                   site, reqs, results, browsers>>

\* the js_result of the handler of main.py:171-178
ExceptionResult(msg) ==
    [sections |-> <<>>, meta |-> NoMeta, interactions |-> EmptyInteractions,
     errors |-> <<RenderError(msg)>>]

\* Escalate as the controller's previous version had it: from the light tier
\* straight to the hard tier
EscalateStraightToHard ==
    /\ pc = "escalate"
    /\ \E ho \in TierOutcomes :
          LET hard == js_scrape_hard(body, HardScrolls, ho)
          IN /\ js_result' = hard
             /\ raised' = raised \o hard.errors
             /\ tier_results' = Append(tier_results, hard)
    /\ calls' = Append(calls, "hard")
    /\ entered' = Append(entered, "hard")
    /\ pc' = "merge"
    /\ UNCHANGED <<body, text, result, response, snap, merges, gets, frame, session,
                   site, reqs, results, browsers>>

\* main.py:160-178: the call of the full tier, the hard tier after it, and the
\* handler of what they raise
Escalate ==
    /\ pc = "escalate"
    /\ IF ~FullCallBinds
       THEN /\ js_result' = ExceptionResult(MsgTypeError)
            /\ calls' = Append(calls, "full")
            /\ raised' = Append(raised, RenderError(MsgTypeError))
            /\ UNCHANGED <<entered, tier_results>>
       ELSE \E fo \in EscalateFullOutcomes :
               LET full == js_scrape_full(body, FullScrolls, FullClicks,
                                          FullPaginationDepth, fo)
                   escalate == TotalTextLen(full.sections) < MinTextLen
                               \/ full.errors /= <<>>
               IN IF ~escalate
                  THEN /\ js_result' = full
                       /\ calls' = Append(calls, "full")
                       /\ entered' = Append(entered, "full")
                       /\ raised' = raised \o full.errors
                       /\ tier_results' = Append(tier_results, full)
                  ELSE \E ho \in EscalateHardOutcomes :
                          LET hard == js_scrape_hard(body, HardScrolls, ho)
                          IN /\ js_result' = hard
                             /\ calls' = calls \o <<"full", "hard">>
                             /\ entered' = entered \o <<"full", "hard">>
                             /\ raised' = raised \o full.errors \o hard.errors
                             /\ tier_results' = tier_results \o <<full, hard>>
    /\ pc' = "merge"
    /\ UNCHANGED <<body, text, result, response, snap, merges, gets, frame, session,
                   site, reqs, results, browsers>>

\* main.py:181-206: the merge of the tier result into the accumulated result
Merge ==
    /\ pc = "merge"
    /\ snap' = result
    /\ result' = MergeJs(result, js_result)
    /\ pc' = "ensure"
    /\ UNCHANGED <<body, text, js_result, response, calls, entered, raised, merges, gets,
                   tier_results, frame, session, site, reqs, results, browsers>>

\* EnsureMinimum without the placeholder
EnsureMinimumNoPlaceholder ==
    /\ pc = "ensure"
    /\ response' = [kind |-> "result", status |-> 200, result |-> result]
    /\ pc' = "done"
    /\ UNCHANGED <<body, text, result, js_result, calls, entered, raised, snap, merges,
                   gets, tier_results, frame, session, site, reqs, results, browsers>>

\* EnsureMinimum that does not return: the controller stays before line 215
EnsureMinimumNoReturn ==
    /\ pc = "ensure"
    /\ result' = IF result.sections = <<>>
                 THEN [result EXCEPT
                         !.sections = Append(@, PlaceholderSection(body)),
                         !.errors = Append(@, error_obj(
                             "No readable content found in static or JS mode", "fallback"))]
                 ELSE result
    /\ pc' = "ensure"
    /\ UNCHANGED <<body, text, js_result, response, calls, entered, raised, snap, merges,
                   gets, tier_results, frame, session, site, reqs, results, browsers>>

\* EnsureMinimum with line 225 outside the if of line 215: the fallback error
\* is appended to every result
EnsureMinimumAlwaysFallbackError ==
    /\ pc = "ensure"
    /\ result' = [result EXCEPT
                    !.sections = IF @ = <<>> THEN <<PlaceholderSection(body)>> ELSE @,
                    !.errors = Append(@, error_obj(
                        "No readable content found in static or JS mode", "fallback"))]
    /\ response' = [kind |-> "result", status |-> 200, result |-> result']
    /\ pc' = "done"
    /\ UNCHANGED <<body, text, js_result, calls, entered, raised, snap, merges, gets,
                   tier_results, frame, session, site, reqs, results, browsers>>

\* main.py:215-227: the placeholder section, and the response
EnsureMinimum ==
    /\ pc = "ensure"
    /\ result' = IF result.sections = <<>>
                 THEN [result EXCEPT
                         !.sections = Append(@, PlaceholderSection(body)),
                         !.errors = Append(@, error_obj(
                             "No readable content found in static or JS mode", "fallback"))]
                 ELSE result
    /\ response' = [kind |-> "result", status |-> 200, result |-> result']
    /\ pc' = "done"
    /\ UNCHANGED <<body, text, js_result, calls, entered, raised, snap, merges, gets,
                   tier_results, frame, session, site, reqs, results, browsers>>

Init ==
    /\ body \in {NoUrl} \cup RequestUrls
    /\ pc = "start"
    /\ text = NoText
    /\ result = NoResult
    /\ js_result = NoJs
    /\ response = NoResponse
    /\ calls = <<>>
    /\ entered = <<>>
    /\ raised = <<>>
    /\ snap = NoResult
    /\ merges = 0
    /\ gets = <<>>
    /\ tier_results = <<>>
    /\ frame = NoFrame
    /\ session = NoSession
    /\ site = <<>>
    /\ reqs = <<>>
    /\ results = <<>>
    /\ browsers = <<>>

Next ==
    \/ Validate
    \/ StaticFetch
    \/ ParseStatic
    \/ CheckSufficient
    \/ LightTier
    \/ Escalate
    \/ Merge
    \/ EnsureMinimum

Spec == Init /\ [][Next]_vars

\* The controller under the assumption that every external call returns or
\* fails: scrape_endpoint is straight-line code between those calls, so a
\* step that can be taken is taken
SpecLive == Spec /\ WF_vars(Next)

----------------------------------------------------------------------------
(* The merge engine on its own: MergeJs applied to an accumulated result   *)
(* as the static stage leaves it, with every result a browser tier can     *)
(* return, then applied again.                                              *)

HarnessUrl == Url("https", "a")

\* the accumulated result after the static stage has parsed doc
AfterStatic(doc) ==
    [NewResult(HarnessUrl) EXCEPT
       !.meta = StaticMeta(doc),
       !.sections = parse_sections_from_soup(doc, HarnessUrl)]

\* the results the three tiers and the controller's handler can produce
HarnessTierResults ==
    {js_scrape_with_playwright(HarnessUrl, LightScrolls, o) : o \in TierOutcomes}
    \cup {js_scrape_hard(HarnessUrl, HardScrolls, o) : o \in TierOutcomes}
    \cup {js_scrape_full(HarnessUrl, FullScrolls, FullClicks, FullPaginationDepth, o) :
             o \in FullOutcomes}
    \cup {ExceptionResult(MsgTypeError)}

InitMerge ==
    /\ body = HarnessUrl
    /\ pc = "merge_input"
    /\ \E d \in {sd \in StaticDocs : Len(sd.els) <= MaxRendered} :
          /\ text = [empty |-> FALSE, doc |-> d]
          /\ result = AfterStatic(d)
    /\ js_result \in HarnessTierResults
    /\ response = NoResponse
    /\ calls = <<>>
    /\ entered = <<>>
    /\ raised = <<>>
    /\ snap = NoResult
    /\ merges = 0
    /\ gets = <<>>
    /\ tier_results = <<>>
    /\ frame = NoFrame
    /\ session = NoSession
    /\ site = <<>>
    /\ reqs = <<>>
    /\ results = <<>>
    /\ browsers = <<>>

\* the first merge of js_result
HarnessMerge ==
    /\ pc = "merge_input"
    /\ snap' = result
    /\ result' = MergeJs(result, js_result)
    /\ merges' = merges + 1
    /\ pc' = "merged"
    /\ UNCHANGED <<body, text, js_result, response, calls, entered, raised, gets,
                   tier_results, frame, session, site, reqs, results, browsers>>

\* the same js_result merged once more
HarnessRemerge ==
    /\ pc \in {"merged", "remerged"}
    /\ merges < MaxMerges
    /\ snap' = result
    /\ result' = MergeJs(result, js_result)
    /\ merges' = merges + 1
    /\ pc' = "remerged"
    /\ UNCHANGED <<body, text, js_result, response, calls, entered, raised, gets,
                   tier_results, frame, session, site, reqs, results, browsers>>

\* another tier's result arrives: the handler's, or a hard tier's
HarnessNextTier ==
    /\ pc \in {"merged", "remerged"}
    /\ merges < MaxMerges
    /\ \E js \in {ExceptionResult(MsgTypeError),
                  js_scrape_hard(HarnessUrl, HardScrolls,
                                 [stage |-> "ok", msg |-> MsgTimeout,
                                  doc |-> Doc(HeadPlain, <<MainAlt>>),
                                  scroll |-> ScrollProfile(0, 0, "scroll")])} :
          js_result' = js
    /\ pc' = "merge_input"
    /\ UNCHANGED <<body, text, result, response, calls, entered, raised, snap, merges,
                   gets, tier_results, frame, session, site, reqs, results, browsers>>

NextMerge == HarnessMerge \/ HarnessRemerge \/ HarnessNextTier

SpecMerge == InitMerge /\ [][NextMerge]_vars

----------------------------------------------------------------------------
(* The segmentation engine on its own: one call of                         *)
(* parse_sections_from_soup(soup, source_url) on a parsed document.        *)

InitParse ==
    /\ body \in {Url("http", "a"), Url("https", "a")}
    /\ pc = "parse_entry"
    /\ \E d \in ParseDocs : text = [empty |-> FALSE, doc |-> d]
    /\ result = NewResult(body)
    /\ js_result = NoJs
    /\ response = NoResponse
    /\ calls = <<>>
    /\ entered = <<>>
    /\ raised = <<>>
    /\ snap = NoResult
    /\ merges = 0
    /\ gets = <<>>
    /\ tier_results = <<>>
    /\ frame = NoFrame
    /\ session = NoSession
    /\ site = <<>>
    /\ reqs = <<>>
    /\ results = <<>>
    /\ browsers = <<>>

\* sections.py:13-60: the loops over the landmark tags and their elements
ParseLandmarks ==
    /\ pc = "parse_entry"
    /\ result' = [result EXCEPT !.sections = LandmarkSections(text.doc, body).sections]
    /\ pc' = "parse_fallback"
    /\ UNCHANGED <<body, text, js_result, response, calls, entered, raised, snap, merges,
                   gets, tier_results, frame, session, site, reqs, results, browsers>>

\* sections.py:62-80: the fallback and the return
ParseFallback ==
    /\ pc = "parse_fallback"
    /\ result' = [result EXCEPT !.sections = BodyFallback(@, text.doc, body)]
    /\ pc' = "parse_returned"
    /\ UNCHANGED <<body, text, js_result, response, calls, entered, raised, snap, merges,
                   gets, tier_results, frame, session, site, reqs, results, browsers>>

NextParse == ParseLandmarks \/ ParseFallback

SpecParse == InitParse /\ [][NextParse]_vars

----------------------------------------------------------------------------
(* The browser tiers step by step: js_scrape_with_playwright ("light"),     *)
(* js_scrape_full ("full") and js_scrape_hard ("hard"), each run on its own *)
(* against a site, with every call into the browser free to raise.          *)

\* max_scrolls of a tier, as the controller passes it
TierMaxScrolls(fn) ==
    CASE fn = "light" -> LightScrolls
      [] fn = "hard" -> HardScrolls
      [] OTHER -> FullScrolls

\* the URL of the i-th page of a pagination chain
PageUrl(i) ==
    CASE i = 1 -> Url("https", "a")
      [] i = 2 -> Url("https", "a?p=2")
      [] i = 3 -> Url("https", "a?p=3")
      [] i = 4 -> Url("https", "a?p=4")
      [] i = 5 -> Url("https", "a?p=5")
      [] OTHER -> Url("https", "a?p=n")

\* the i-th page of a chain whose first page renders d and scrolls as sp
SitePage(i, d, sp) ==
    IF i = 1 THEN ChainPage(PageUrl(1), d, sp, <<"More">>)
    ELSE ChainPage(PageUrl(i), Doc(Head0, <<MainAlt>>), ScrollProfile(0, 0, "scroll"), <<>>)

\* the scroll profiles of the sites: those of the controller's tiers, a page
\* whose second scroll raises, at the scrollTo or at the height read, and a
\* page that grows with the first two scrolls only
SiteScrollProfiles ==
    ScrollProfiles
    \cup {ScrollProfile(HardScrolls, 2, "scroll"), ScrollProfile(HardScrolls, 2, "height"),
          ScrollProfile(2, 0, "scroll")}

\* the elements the click selectors match on a page: none, one hidden, one
\* covered and one that can be clicked, or one more than the tier's cap
ClickLists ==
    {<<>>, <<"Hidden", "Covered", "More">>, [j \in 1..(FullClicks + 1) |-> "More"]}

\* the i-th page of a chain, with the elements c
ClickPage(i, c) ==
    ChainPage(PageUrl(i), Doc(Head0, <<MainAlt>>), ScrollProfile(0, 0, "scroll"), c)

\* the first pages of the sites of more than one page
ChainDocs == {Doc(Head0, <<>>), Doc(HeadPlain, <<MainBig>>)}

ChainScrollProfiles == {ScrollProfile(0, 0, "scroll"), ScrollProfile(HardScrolls, 2, "scroll")}

\* the sites: single pages, chains of two to MaxChain pages, a chain whose
\* second page links back to the first, and two pages with elements to click
Sites ==
    {<<SitePage(1, d, sp)>> : d \in RenderedDocs, sp \in SiteScrollProfiles}
    \cup {[i \in 1..n |-> SitePage(i, d, sp)] :
             n \in 2..MaxChain, d \in ChainDocs, sp \in ChainScrollProfiles}
    \cup {<<SitePage(1, d, sp), SitePage(2, d, sp), SitePage(1, d, sp)>> :
             d \in ChainDocs, sp \in ChainScrollProfiles}
    \cup {<<ClickPage(1, c1), ClickPage(2, c2)>> : c1, c2 \in ClickLists}

\* the place in the site of the page the tier works on
CurIndex == CHOOSE j \in 1..Len(site) : site[j].url = frame.current

\* the page the browser shows while the tier works on frame.current
ShownPage == site[CurIndex]

\* raise msg inside the with block: control goes to the block's exit
RaiseInWith(msg) ==
    /\ frame' = [frame EXCEPT !.exc = msg]
    /\ pc' = "t_exit"

\* sync_playwright().__enter__ (lines 197, 245, 310): the driver starts, or
\* the with statement raises before its block is entered
StartPlaywright ==
    /\ pc = "t_entry"
    /\ \E ok \in BOOLEAN :
          IF ok
          THEN /\ session' = [session EXCEPT !.playwright = "started"]
               /\ pc' = "t_launch"
               /\ UNCHANGED frame
          ELSE /\ frame' = [frame EXCEPT !.exc = MsgTimeout]
               /\ pc' = "t_except"
               /\ session' = [session EXCEPT !.failed = Append(@, "start")]
    /\ UNCHANGED <<body, text, result, js_result, response, calls, entered, raised, snap,
                   merges, gets, tier_results, site, reqs, results, browsers>>

\* pw.chromium.launch (lines 198, 246, 311)
Launch ==
    /\ pc = "t_launch"
    /\ \E ok \in BOOLEAN :
          IF ok
          THEN /\ session' = [session EXCEPT !.browser = "open"]
               /\ pc' = "t_context"
               /\ UNCHANGED frame
          ELSE /\ RaiseInWith(MsgBlocked)
               /\ session' = [session EXCEPT !.failed = Append(@, "launch")]
    /\ UNCHANGED <<body, text, result, js_result, response, calls, entered, raised, snap,
                   merges, gets, tier_results, site, reqs, results, browsers>>

\* browser.new_context, context.new_page, _apply_stealth (lines 202-208,
\* 254-260, 315-321)
NewContext ==
    /\ pc = "t_context"
    /\ \E ok \in BOOLEAN :
          IF ok
          THEN /\ session' = [session EXCEPT !.context = "open"]
               /\ pc' = IF frame.fn = "full" THEN "t_loop" ELSE "t_goto"
               /\ UNCHANGED frame
          ELSE /\ RaiseInWith(MsgTimeout)
               /\ session' = [session EXCEPT !.failed = Append(@, "new_context")]
    /\ UNCHANGED <<body, text, result, js_result, response, calls, entered, raised, snap,
                   merges, gets, tier_results, site, reqs, results, browsers>>

\* LoopHead without the test of depth against pagination_limit
LoopHeadNoLimit ==
    /\ pc = "t_loop"
    /\ frame.fn = "full"
    /\ IF frame.current /= NoUrl
       THEN /\ frame' = [frame EXCEPT !.visited_pages = @ \cup {frame.current}]
            /\ js_result' = [js_result EXCEPT
                               !.interactions.pages = Append(@, frame.current)]
            /\ pc' = "t_goto"
       ELSE /\ pc' = "t_close"
            /\ UNCHANGED <<frame, js_result>>
    /\ UNCHANGED <<body, text, result, response, calls, entered, raised, snap, merges,
                   gets, tier_results, session, site, reqs, results, browsers>>

\* js_scrape_full, lines 326-328: the loop test and the bookkeeping of a page
LoopHead ==
    /\ pc = "t_loop"
    /\ frame.fn = "full"
    /\ IF frame.current /= NoUrl /\ frame.depth < FullPaginationDepth
       THEN /\ frame' = [frame EXCEPT !.visited_pages = @ \cup {frame.current}]
            /\ js_result' = [js_result EXCEPT
                               !.interactions.pages = Append(@, frame.current)]
            /\ pc' = "t_goto"
       ELSE /\ pc' = "t_close"
            /\ UNCHANGED <<frame, js_result>>
    /\ UNCHANGED <<body, text, result, response, calls, entered, raised, snap, merges,
                   gets, tier_results, session, site, reqs, results, browsers>>

\* one page.goto as the browser saw it
Nav(url, wait_until, ok) == [url |-> url, wait_until |-> wait_until, ok |-> ok]

\* GotoNetworkIdle without the handler around the first goto
GotoNetworkIdleNoRetry ==
    /\ pc = "t_goto"
    /\ \E ok \in BOOLEAN :
          /\ session' = [session EXCEPT
                           !.navs = Append(@, Nav(frame.current, "networkidle", ok)),
                           !.failed = IF ok THEN @ ELSE Append(@, "goto"),
                           !.scrolled = IF ok THEN Append(@, <<>>) ELSE @]
          /\ IF ok
             THEN /\ pc' = "t_scroll"
                  /\ UNCHANGED frame
             ELSE RaiseInWith(MsgTimeout)
    /\ UNCHANGED <<body, text, result, js_result, response, calls, entered, raised, snap,
                   merges, gets, tier_results, site, reqs, results, browsers>>

\* page.goto(url, wait_until="networkidle") inside its try (lines 210-212,
\* 262-264, 331-333)
GotoNetworkIdle ==
    /\ pc = "t_goto"
    /\ \E ok \in BOOLEAN :
          /\ session' = [session EXCEPT
                           !.navs = Append(@, Nav(frame.current, "networkidle", ok)),
                           !.scrolled = IF ok THEN Append(@, <<>>) ELSE @]
          /\ pc' = IF ok THEN "t_scroll" ELSE "t_goto_load"
    /\ UNCHANGED <<body, text, result, js_result, response, calls, entered, raised, snap,
                   merges, gets, tier_results, frame, site, reqs, results, browsers>>

\* page.goto(url, wait_until="load") in the handler (lines 213, 265, 334)
GotoLoad ==
    /\ pc = "t_goto_load"
    /\ \E ok \in BOOLEAN :
          /\ session' = [session EXCEPT
                           !.navs = Append(@, Nav(frame.current, "load", ok)),
                           !.failed = IF ok THEN @ ELSE Append(@, "goto"),
                           !.scrolled = IF ok THEN Append(@, <<>>) ELSE @]
          /\ IF ok
             THEN /\ pc' = "t_scroll"
                  /\ UNCHANGED frame
             ELSE RaiseInWith(MsgTimeout)
    /\ UNCHANGED <<body, text, result, js_result, response, calls, entered, raised, snap,
                   merges, gets, tier_results, site, reqs, results, browsers>>

\* One iteration of smart_scroll's loop (lines 33-44; called at lines 215,
\* 337), which catches what evaluate raises, or of the scroll loop of
\* js_scrape_hard (lines 268-271), which does not; when range() is
\* exhausted control leaves the loop
Scroll ==
    /\ pc = "t_scroll"
    /\ LET profile == ShownPage.scroll
           k == frame.i + 1
           hard == frame.fn = "hard"
           new_height == HeightAfter(profile, k)
           performed == [session EXCEPT
                           !.scrolled[Len(session.scrolled)] = Append(@, new_height)]
           leave == /\ frame' = [frame EXCEPT !.i = 0, !.last_height = 0]
                    /\ pc' = IF frame.fn = "full" THEN "t_click" ELSE "t_content"
       IN IF k > TierMaxScrolls(frame.fn)
          THEN /\ leave
               /\ UNCHANGED <<js_result, session>>
          ELSE IF profile.raise_at = k /\ (hard \/ profile.raise_in = "scroll")
          THEN /\ session' = [session EXCEPT !.failed = Append(@, "evaluate")]
               /\ UNCHANGED js_result
               /\ IF hard THEN RaiseInWith(MsgTimeout) ELSE leave
          ELSE /\ js_result' = [js_result EXCEPT !.interactions.scrolls = @ + 1]
               /\ IF ~hard /\ profile.raise_at = k
                  THEN /\ session' = [performed EXCEPT !.failed = Append(@, "evaluate")]
                       /\ leave
                  ELSE /\ session' = performed
                       /\ IF ~hard /\ new_height = frame.last_height
                          THEN leave
                          ELSE /\ frame' = [frame EXCEPT
                                              !.i = k,
                                              !.last_height = IF hard THEN @ ELSE new_height]
                               /\ pc' = "t_scroll"
    /\ UNCHANGED <<body, text, result, response, calls, entered, raised, snap, merges,
                   gets, tier_results, site, reqs, results, browsers>>

\* an element the click selectors match, named by its text: el.bounding_box()
\* is None for an element that is not displayed, and el.click() raises on an
\* element that another element covers
HasBox(el) == el /= "Hidden"

ClickRaises(el) == el = "Covered"

\* One iteration of the loop of auto_click_elements (lines 64-81; called at
\* line 338) over the elements the selectors matched: it skips an element
\* without a box, catches what a click raises, and stops at max_clicks
Click ==
    /\ pc = "t_click"
    /\ LET clickable == ShownPage.clickable
           k == frame.i + 1
       IN IF k > Len(clickable) \/ frame.clicked >= FullClicks
          THEN /\ frame' = [frame EXCEPT !.i = 0, !.clicked = 0]
               /\ pc' = "t_content"
               /\ UNCHANGED <<js_result, session>>
          ELSE /\ pc' = "t_click"
               /\ IF ~HasBox(clickable[k])
                  THEN /\ frame' = [frame EXCEPT !.i = k]
                       /\ UNCHANGED <<js_result, session>>
                  ELSE IF ClickRaises(clickable[k])
                  THEN /\ frame' = [frame EXCEPT !.i = k]
                       /\ session' = [session EXCEPT !.failed = Append(@, "click")]
                       /\ UNCHANGED js_result
                  ELSE /\ frame' = [frame EXCEPT !.i = k, !.clicked = @ + 1]
                       /\ session' = [session EXCEPT !.clicked = Append(@, clickable[k])]
                       /\ js_result' = [js_result EXCEPT
                                          !.interactions.clicks = Append(@, clickable[k])]
    /\ UNCHANGED <<body, text, result, response, calls, entered, raised, snap, merges,
                   gets, tier_results, site, reqs, results, browsers>>

\* page.content() and the extraction (lines 217-222, 273-278, 341-349)
Content ==
    /\ pc = "t_content"
    /\ \E ok \in BOOLEAN :
          IF ~ok
          THEN /\ RaiseInWith(MsgDenied)
               /\ session' = [session EXCEPT !.failed = Append(@, "content")]
               /\ UNCHANGED js_result
          ELSE /\ js_result' =
                     IF frame.fn = "full"
                     THEN [js_result EXCEPT
                             !.meta = IF frame.depth = 0
                                      THEN extract_meta(ShownPage.doc) ELSE @,
                             !.sections = @ \o parse_sections_from_soup(ShownPage.doc,
                                                                        frame.current)]
                     ELSE Captured(js_result, ShownPage.doc, frame.current)
               /\ session' = [session EXCEPT !.extracted = Append(@, frame.current)]
               /\ pc' = IF frame.fn = "full" THEN "t_paginate" ELSE "t_close"
               /\ UNCHANGED frame
    /\ UNCHANGED <<body, text, result, response, calls, entered, raised, snap, merges,
                   gets, tier_results, site, reqs, results, browsers>>

\* one call of the pagination helper on its control, as the browser saw it:
\* a click on the control or a goto of its link target, whether the control
\* has an href, and the URL the browser showed afterwards (NoUrl: it raised)
PagCall(call, href, to) == [call |-> call, href |-> href, to |-> to]

\* lines 352-356 after the helper returned next_page
PaginationReturns(next_page) ==
    IF next_page = NoUrl
    THEN /\ pc' = "t_close"
         /\ frame' = [frame EXCEPT !.absolute = NoUrl]
    ELSE /\ pc' = "t_loop"
         /\ frame' = [frame EXCEPT !.current = next_page, !.depth = @ + 1,
                                   !.absolute = NoUrl]

\* detect_and_click_pagination, lines 103-115: the first selector that
\* matches gives the next-page control; its target is its href made absolute,
\* or page.url when it has none; a target already visited ends the helper
Paginate ==
    /\ pc = "t_paginate"
    /\ IF CurIndex + 1 > Len(site)
       THEN PaginationReturns(NoUrl)
       ELSE \E href \in BOOLEAN :
               LET absolute == IF href THEN site[CurIndex + 1].url ELSE frame.current
               IN IF absolute \in frame.visited_pages
                  THEN PaginationReturns(NoUrl)
                  ELSE /\ frame' = [frame EXCEPT !.absolute = absolute]
                       /\ pc' = "t_pag_click"
    /\ UNCHANGED <<body, text, result, js_result, response, calls, entered, raised, snap,
                   merges, gets, tier_results, session, site, reqs, results, browsers>>

\* lines 118-133: btn.click() and the wait for the load state; the browser
\* then shows the link's target, a page it was on before, or the page it was
\* on (no navigation), or the click raised; a changed URL is returned as the
\* next page
PaginateClick ==
    /\ pc = "t_pag_click"
    /\ \E after \in {frame.absolute, frame.current, NoUrl} \cup frame.visited_pages :
          /\ session' = [session EXCEPT
                           !.pag = Append(@, PagCall("click", TRUE, after)),
                           !.failed = IF after = NoUrl THEN Append(@, "pag_click") ELSE @]
          /\ IF after = NoUrl
             THEN /\ pc' = "t_pag_fallback"
                  /\ UNCHANGED <<frame, js_result>>
             ELSE IF after = frame.current
             THEN /\ pc' = "t_pag_goto"
                  /\ UNCHANGED <<frame, js_result>>
             ELSE /\ js_result' = [js_result EXCEPT
                                     !.interactions.pages = Append(@, after)]
                  /\ PaginationReturns(after)
    /\ UNCHANGED <<body, text, result, response, calls, entered, raised, snap, merges,
                   gets, tier_results, site, reqs, results, browsers>>

\* lines 136-139: the click changed nothing, the href is followed by a goto;
\* what it raises is caught at line 144
PaginateGoto ==
    /\ pc = "t_pag_goto"
    /\ \E ok \in BOOLEAN :
          /\ session' = [session EXCEPT
                           !.pag = Append(@, PagCall("goto", TRUE,
                                                     IF ok THEN frame.absolute ELSE NoUrl)),
                           !.failed = IF ok THEN @ ELSE Append(@, "pag_goto")]
          /\ IF ok
             THEN /\ js_result' = [js_result EXCEPT
                                     !.interactions.pages = Append(@, frame.absolute)]
                  /\ PaginationReturns(frame.absolute)
             ELSE /\ pc' = "t_pag_fallback"
                  /\ UNCHANGED <<frame, js_result>>
    /\ UNCHANGED <<body, text, result, response, calls, entered, raised, snap, merges,
                   gets, tier_results, site, reqs, results, browsers>>

\* lines 144-154: the handler's goto of the href; when it raises too the
\* helper goes on to the selectors left, which match nothing, and returns None
PaginateFallback ==
    /\ pc = "t_pag_fallback"
    /\ \E ok \in BOOLEAN :
          /\ session' = [session EXCEPT
                           !.pag = Append(@, PagCall("goto", TRUE,
                                                     IF ok THEN frame.absolute ELSE NoUrl)),
                           !.failed = IF ok THEN @ ELSE Append(@, "pag_goto")]
          /\ IF ok
             THEN /\ js_result' = [js_result EXCEPT
                                     !.interactions.pages = Append(@, frame.absolute)]
                  /\ PaginationReturns(frame.absolute)
             ELSE /\ PaginationReturns(NoUrl)
                  /\ UNCHANGED js_result
    /\ UNCHANGED <<body, text, result, response, calls, entered, raised, snap, merges,
                   gets, tier_results, site, reqs, results, browsers>>

\* context.close(); browser.close() (lines 224-225, 280-281, 358-359); c is
\* the call that raises, if one does
Close ==
    /\ pc = "t_close"
    /\ \E c \in {"none", "context", "browser"} :
          /\ session' = [session EXCEPT
                           !.context = IF c = "context" THEN @ ELSE "closed",
                           !.browser = IF c = "none" THEN "closed" ELSE @,
                           !.failed = IF c = "none" THEN @ ELSE Append(@, "close")]
          /\ frame' = [frame EXCEPT !.exc = IF c = "none" THEN @ ELSE MsgTimeout]
    /\ pc' = "t_exit"
    /\ UNCHANGED <<body, text, result, js_result, response, calls, entered, raised, snap,
                   merges, gets, tier_results, site, reqs, results, browsers>>

\* WithExit without the stop of the driver
WithExitNoStop ==
    /\ pc = "t_exit"
    /\ pc' = IF frame.exc = None THEN "t_returned" ELSE "t_except"
    /\ UNCHANGED <<body, text, result, js_result, response, calls, entered, raised, snap,
                   merges, gets, tier_results, frame, session, site, reqs, results,
                   browsers>>

\* the exit of the with block (lines 197, 245, 310), taken on the normal and
\* on the raising path: sync_playwright's __exit__ stops the driver, which
\* ends the browsers it has launched and their contexts
WithExit ==
    /\ pc = "t_exit"
    /\ session' = [session EXCEPT
                     !.playwright = "stopped",
                     !.browser = IF @ = "open" THEN "closed" ELSE @,
                     !.context = IF @ = "open" THEN "closed" ELSE @]
    /\ pc' = IF frame.exc = None THEN "t_returned" ELSE "t_except"
    /\ UNCHANGED <<body, text, result, js_result, response, calls, entered, raised, snap,
                   merges, gets, tier_results, frame, site, reqs, results, browsers>>

\* except Exception as e (lines 227-230, 283-286, 361-364), and the return
HandleException ==
    /\ pc = "t_except"
    /\ js_result' = [js_result EXCEPT !.errors = Append(@, RenderError(frame.exc))]
    /\ pc' = "t_returned"
    /\ UNCHANGED <<body, text, result, response, calls, entered, raised, snap, merges,
                   gets, tier_results, frame, session, site, reqs, results, browsers>>

InitTier ==
    /\ site \in Sites
    /\ body = site[1].url
    /\ frame \in {[NoFrame EXCEPT !.fn = fn, !.current = site[1].url] :
                     fn \in {"light", "full", "hard"}}
    /\ session = NoSession
    /\ js_result = NewTierResult
    /\ pc = "t_entry"
    /\ text = NoText
    /\ result = NoResult
    /\ response = NoResponse
    /\ calls = <<>>
    /\ entered = <<>>
    /\ raised = <<>>
    /\ snap = NoResult
    /\ merges = 0
    /\ gets = <<>>
    /\ tier_results = <<>>
    /\ reqs = <<>>
    /\ results = <<>>
    /\ browsers = <<>>

NextTier ==
    \/ StartPlaywright
    \/ Launch
    \/ NewContext
    \/ LoopHead
    \/ GotoNetworkIdle
    \/ GotoLoad
    \/ Scroll
    \/ Click
    \/ Content
    \/ Paginate
    \/ PaginateClick
    \/ PaginateGoto
    \/ PaginateFallback
    \/ Close
    \/ WithExit
    \/ HandleException

SpecTier == InitTier /\ [][NextTier]_vars

\* A tier under the assumption that every call into the browser returns or
\* raises: the tier functions are sequential code between those calls, so a
\* step that can be taken is taken
SpecTierLive == SpecTier /\ WF_vars(NextTier)

----------------------------------------------------------------------------
(* Concurrent requests.  scrape_endpoint is a plain def, which FastAPI runs *)
(* in a worker thread per request: the calls interleave at every step.      *)
(* Each call has its own locals; the objects they refer to live in the      *)
(* process: the result dictionaries and the browser instances.              *)

Requests == 1..NumRequests

\* the fixed outcome of the full and of the hard tier in every world
PairFullOutcome ==
    [stage |-> "launch", msg |-> MsgBlocked, chain |-> <<>>, fail_at |-> 0]

PairHardOutcome ==
    [stage |-> "ok", msg |-> MsgTimeout, doc |-> Doc(HeadPlain, <<MainAlt>>),
     scroll |-> ScrollProfile(0, 0, "scroll")]

\* what the outside world does to one request: the first GET's outcome, the
\* body a 200 carries, and what the browser does in each tier
World(r1, doc, light) ==
    [r1 |-> r1, txt |-> [empty |-> FALSE, doc |-> doc], light |-> light,
     full |-> PairFullOutcome, hard |-> PairHardOutcome]

\* three worlds: a page the static stage suffices for, a page only the
\* light tier renders in full, and a site that is down and renders little
Worlds ==
    {World("200", Doc(HeadOg, <<MainBig>>), TierFailure("goto", MsgTimeout)),
     World("200", Doc(Head0, <<MainLoading>>),
           [stage |-> "ok", msg |-> MsgTimeout, doc |-> Doc(HeadPlain, <<MainAlt>>),
            scroll |-> ScrollProfile(HardScrolls, 0, "scroll")]),
     World(NetErr, Doc(Head0, <<MainLoading>>),
           [stage |-> "ok", msg |-> MsgTimeout, doc |-> LoadingDoc,
            scroll |-> ScrollProfile(0, 0, "scroll")])}

\* the locals of a call of scrape_endpoint that has not started: result and
\* browser are references into results and browsers (0: unbound)
NewRequest(url, w) ==
    [body |-> url, world |-> w, pc |-> "start", result |-> 0, js_result |-> NoJs,
     browser |-> 0, response |-> NoResponse]

\* main.py:79-130 on a fresh result: the static fetch and the parse
StaticStage(res, url, w) ==
    LET out == static_scrape(w.r1, "200", w.txt)
        errs == IF out.raised
                THEN <<error_obj(FetchFailedMsg(out.msg), "fetch"),
                       error_obj("Static fetch returned empty body", "fetch")>>
                ELSE <<>>
        doc == IF out.raised THEN EmptyDoc ELSE out.value.doc
    IN [res EXCEPT !.errors = @ \o errs,
                   !.meta = StaticMeta(doc),
                   !.sections = @ \o parse_sections_from_soup(doc, url)]

\* main.py:143-158
MustEscalate(js) == HasBlockingKeyword(js.errors) \/ Insufficient(js.sections)

\* main.py:160-178: the tier result after the escalation
Escalated(url, w) ==
    IF ~FullCallBinds THEN ExceptionResult(MsgTypeError)
    ELSE LET full == js_scrape_full(url, FullScrolls, FullClicks, FullPaginationDepth,
                                    w.full)
         IN IF TotalTextLen(full.sections) < MinTextLen \/ full.errors /= <<>>
            THEN js_scrape_hard(url, HardScrolls, w.hard)
            ELSE full

\* main.py:215-225
WithPlaceholder(res, url) ==
    IF res.sections = <<>>
    THEN [res EXCEPT
            !.sections = Append(@, PlaceholderSection(url)),
            !.errors = Append(@, error_obj(
                "No readable content found in static or JS mode", "fallback"))]
    ELSE res

\* what scrape_endpoint returns for url in world w when no other request runs
RunAlone(url, w) ==
    IF url.scheme \notin {"http", "https"}
    THEN [kind |-> "rejection", status |-> 400,
          errors |-> <<error_obj("Unsupported URL scheme", "validation")>>]
    ELSE LET static == StaticStage(NewResult(url), url, w)
             light == js_scrape_with_playwright(url, LightScrolls, w.light)
             js == IF MustEscalate(light) THEN Escalated(url, w) ELSE light
             merged == IF Insufficient(static.sections) THEN MergeJs(static, js)
                       ELSE static
         IN [kind |-> "result", status |-> 200, result |-> WithPlaceholder(merged, url)]

\* main.py:52-74 in request r: the scheme check, and result = { ... }, a new
\* dictionary
PairValidate(r) ==
    /\ reqs[r].pc = "start"
    /\ IF reqs[r].body.scheme \notin {"http", "https"}
       THEN /\ reqs' = [reqs EXCEPT
                           ![r].pc = "done",
                           ![r].response =
                               [kind |-> "rejection", status |-> 400,
                                errors |-> <<error_obj("Unsupported URL scheme",
                                                       "validation")>>]]
            /\ UNCHANGED results
       ELSE /\ results' = Append(results, NewResult(reqs[r].body))
            /\ reqs' = [reqs EXCEPT ![r].pc = "static", ![r].result = Len(results) + 1]
    /\ UNCHANGED browsers
    /\ UNCHANGED <<body, pc, text, result, js_result, response, calls, entered, raised,
                   snap, merges, gets, tier_results, frame, session, site>>

\* main.py:79-137 in request r
PairStatic(r) ==
    /\ reqs[r].pc = "static"
    /\ LET res == StaticStage(results[reqs[r].result], reqs[r].body, reqs[r].world)
       IN /\ results' = [results EXCEPT ![reqs[r].result] = res]
          /\ reqs' = [reqs EXCEPT
                        ![r].pc = IF Insufficient(res.sections) THEN "light" ELSE "ensure"]
    /\ UNCHANGED browsers
    /\ UNCHANGED <<body, pc, text, result, js_result, response, calls, entered, raised,
                   snap, merges, gets, tier_results, frame, session, site>>

\* PairLightLaunch with a browser kept by the process: an open instance is
\* taken over when there is one
PairLightLaunchShared(r) ==
    /\ reqs[r].pc = "light"
    /\ LET open == {b \in 1..Len(browsers) : browsers[b].open}
       IN IF open /= {}
          THEN /\ reqs' = [reqs EXCEPT ![r].pc = "light_run",
                                       ![r].browser = CHOOSE b \in open : TRUE]
               /\ UNCHANGED browsers
          ELSE /\ browsers' = Append(browsers, [owner |-> r, users |-> {}, open |-> TRUE])
               /\ reqs' = [reqs EXCEPT ![r].pc = "light_run",
                                       ![r].browser = Len(browsers) + 1]
    /\ UNCHANGED results
    /\ UNCHANGED <<body, pc, text, result, js_result, response, calls, entered, raised,
                   snap, merges, gets, tier_results, frame, session, site>>

\* playwright_scraper.py:196-208 in request r: the tier starts its own
\* driver and launches its own browser
PairLightLaunch(r) ==
    /\ reqs[r].pc = "light"
    /\ browsers' = Append(browsers, [owner |-> r, users |-> {}, open |-> TRUE])
    /\ reqs' = [reqs EXCEPT ![r].pc = "light_run", ![r].browser = Len(browsers) + 1]
    /\ UNCHANGED results
    /\ UNCHANGED <<body, pc, text, result, js_result, response, calls, entered, raised,
                   snap, merges, gets, tier_results, frame, session, site>>

\* playwright_scraper.py:210-222 in request r: the tier drives the browser
\* its local refers to
PairLightRun(r) ==
    /\ reqs[r].pc = "light_run"
    /\ browsers' = [browsers EXCEPT ![reqs[r].browser].users = @ \cup {r}]
    /\ reqs' = [reqs EXCEPT
                  ![r].pc = "light_exit",
                  ![r].js_result = js_scrape_with_playwright(reqs[r].body, LightScrolls,
                                                             reqs[r].world.light)]
    /\ UNCHANGED results
    /\ UNCHANGED <<body, pc, text, result, js_result, response, calls, entered, raised,
                   snap, merges, gets, tier_results, frame, session, site>>

\* playwright_scraper.py:224-230 and main.py:143-158 in request r: the
\* session ends, the tier returns, the controller decides
PairLightExit(r) ==
    /\ reqs[r].pc = "light_exit"
    /\ browsers' = [browsers EXCEPT ![reqs[r].browser].open = FALSE]
    /\ reqs' = [reqs EXCEPT
                  ![r].pc = IF MustEscalate(reqs[r].js_result) THEN "escalate" ELSE "merge",
                  ![r].browser = 0]
    /\ UNCHANGED results
    /\ UNCHANGED <<body, pc, text, result, js_result, response, calls, entered, raised,
                   snap, merges, gets, tier_results, frame, session, site>>

\* main.py:160-178 in request r; a full or hard tier that runs launches and
\* ends a browser of its own
PairEscalate(r) ==
    /\ reqs[r].pc = "escalate"
    /\ reqs' = [reqs EXCEPT ![r].pc = "merge",
                            ![r].js_result = Escalated(reqs[r].body, reqs[r].world)]
    /\ browsers' = IF FullCallBinds
                   THEN Append(browsers, [owner |-> r, users |-> {r}, open |-> FALSE])
                   ELSE browsers
    /\ UNCHANGED results
    /\ UNCHANGED <<body, pc, text, result, js_result, response, calls, entered, raised,
                   snap, merges, gets, tier_results, frame, session, site>>

\* main.py:181-206 in request r
PairMerge(r) ==
    /\ reqs[r].pc = "merge"
    /\ results' = [results EXCEPT ![reqs[r].result] = MergeJs(@, reqs[r].js_result)]
    /\ reqs' = [reqs EXCEPT ![r].pc = "ensure"]
    /\ UNCHANGED browsers
    /\ UNCHANGED <<body, pc, text, result, js_result, response, calls, entered, raised,
                   snap, merges, gets, tier_results, frame, session, site>>

\* main.py:215-227 in request r
PairEnsure(r) ==
    /\ reqs[r].pc = "ensure"
    /\ LET res == WithPlaceholder(results[reqs[r].result], reqs[r].body)
       IN /\ results' = [results EXCEPT ![reqs[r].result] = res]
          /\ reqs' = [reqs EXCEPT
                        ![r].pc = "done",
                        ![r].response = [kind |-> "result", status |-> 200, result |-> res]]
    /\ UNCHANGED browsers
    /\ UNCHANGED <<body, pc, text, result, js_result, response, calls, entered, raised,
                   snap, merges, gets, tier_results, frame, session, site>>

InitPair ==
    /\ reqs \in [Requests ->
                   {NewRequest(Url("https", "a"), w) : w \in Worlds}
                   \cup {NewRequest(Url("ftp", "a"),
                                    World("200", Doc(HeadOg, <<MainBig>>),
                                          TierFailure("goto", MsgTimeout)))}]
    /\ results = <<>>
    /\ browsers = <<>>
    /\ body = NoUrl
    /\ pc = "pair"
    /\ text = NoText
    /\ result = NoResult
    /\ js_result = NoJs
    /\ response = NoResponse
    /\ calls = <<>>
    /\ entered = <<>>
    /\ raised = <<>>
    /\ snap = NoResult
    /\ merges = 0
    /\ gets = <<>>
    /\ tier_results = <<>>
    /\ frame = NoFrame
    /\ session = NoSession
    /\ site = <<>>

NextPair ==
    \E r \in Requests :
        \/ PairValidate(r)
        \/ PairStatic(r)
        \/ PairLightLaunch(r)
        \/ PairLightRun(r)
        \/ PairLightExit(r)
        \/ PairEscalate(r)
        \/ PairMerge(r)
        \/ PairEnsure(r)

SpecPair == InitPair /\ [][NextPair]_vars

----------------------------------------------------------------------------
(* Properties *)

IsPrefix(s, t) == Len(s) <= Len(t) /\ SubSeq(t, 1, Len(s)) = s

TierOrder == <<"static", "light", "full", "hard">>

Accepted == body.scheme \in {"http", "https"}

Returned == response.kind = "result"

\* the static parse ran without raising
StaticParseOk == \A i \in 1..Len(raised) : raised[i].phase /= "parse"

\* C1: every request with an http or https URL ends with a result whose
\* section list is non-empty, whatever the static fetch, the parse and the
\* browser tiers did.
C1_SectionsNonEmpty ==
    (pc = "done" /\ Accepted) => (Returned /\ Len(response.result.sections) >= 1)

\* C1 witness: a request on which the static fetch, and the tiers after it,
\* failed, answered with the placeholder alone
C1_Witness ==
    /\ Returned
    /\ text.empty
    /\ "full" \in Range(calls)
    /\ response.result.sections = <<PlaceholderSection(body)>>

\* C2: the tiers are called in the order static, light, full, hard, each at
\* most once and none before the tiers ahead of it; the static fetch is the
\* first call of every accepted request.
C2_EscalationOrder ==
    /\ IsPrefix(calls, TierOrder)
    /\ IsPrefix(entered, TierOrder)
    /\ Len(entered) <= Len(calls)
    /\ (pc \in {"parse", "check", "light", "escalate", "merge", "ensure"} \/ Returned)
          => (calls /= <<>> /\ calls[1] = "static")

\* C2 witness: a finished request that went through static, light and the
\* call of the full tier
C2_Witness == pc = "done" /\ calls = <<"static", "light", "full">>

\* C3 (as claimed): the ids of the sections of a returned result are
\* pairwise distinct.
C3_DistinctIds ==
    Returned =>
        \A i, j \in 1..Len(response.result.sections) :
            i /= j => response.result.sections[i].id /= response.result.sections[j].id

\* C4: a merge leaves every meta field that was non-empty unchanged, and
\* changes a field only from empty to the tier's non-empty value.
C4_MetaFillOnce ==
    (pc \in {"ensure", "done"} /\ js_result /= NoJs) =>
        \A k \in DOMAIN snap.meta :
            /\ k \in DOMAIN result.meta
            /\ Truthy(snap.meta[k]) => result.meta[k] = snap.meta[k]
            /\ result.meta[k] /= snap.meta[k] =>
                  (Truthy(result.meta[k]) /\ result.meta[k] = js_result.meta[k])

\* C4 witness: a merge in which the tier offered another title than the
\* accumulated one, which stayed, and filled a field that was empty
C4_Witness ==
    /\ pc = "ensure"
    /\ js_result /= NoJs
    /\ DOMAIN js_result.meta /= {}
    /\ Truthy(snap.meta.title)
    /\ Truthy(js_result.meta.title)
    /\ js_result.meta.title /= snap.meta.title
    /\ result.meta.title = snap.meta.title
    /\ \E k \in DOMAIN snap.meta : ~Truthy(snap.meta[k]) /\ Truthy(result.meta[k])

\* C5: merging the same tier result a second time leaves the section list
\* as the first merge left it.
C5_MergeIdempotent == pc = "remerged" => result.sections = snap.sections

\* C5 witness: a tier result with two sections of one fingerprint, merged
\* twice, of which the first merge appended a section
C5_Witness ==
    /\ pc = "remerged"
    /\ merges = 2
    /\ \E i, j \in 1..Len(js_result.sections) :
          i /= j /\ Fingerprint(js_result.sections[i]) = Fingerprint(js_result.sections[j])
    /\ Len(result.sections) > Len(AfterStatic(text.doc).sections)

\* C6: interactions.pages of the accumulated result never lists a URL twice.
C6_PagesUnique == NoDuplicates(result.interactions.pages)

\* C6 witness: a merged tier result that lists a page twice, and added a page
C6_Witness ==
    /\ pc = "merged"
    /\ ~NoDuplicates(js_result.interactions.pages)
    /\ Len(result.interactions.pages) >= 2

\* C7 (as claimed): every failure caught during an accepted request is in
\* the returned error list, as often as it occurred.
C7_FailuresRecorded ==
    Returned =>
        \A i \in 1..Len(raised) :
            Count(response.result.errors, raised[i]) >= Count(raised, raised[i])

\* C8: a request whose URL has another scheme than http or https starts no
\* tier and is answered with a rejection that carries one validation error.
C8_RejectedBeforeAnyTier ==
    (body /= NoUrl /\ ~Accepted) =>
        /\ calls = <<>>
        /\ entered = <<>>
        /\ pc \in {"start", "done"}
        /\ pc = "done" =>
              /\ response.kind = "rejection"
              /\ Len(response.errors) = 1
              /\ response.errors[1].phase = "validation"

\* C8 witness: an answered ftp request
C8_Witness == pc = "done" /\ body.scheme = "ftp" /\ response.kind = "rejection"

\* C9: when the static parse yields at least one section and MinTextLen
\* characters of text, no browser tier is called and the returned sections
\* are the static parse's; a nav, a main and a footer give three sections
\* typed nav, section, footer.
C9_StaticSufficientStops ==
    LET secs == parse_sections_from_soup(text.doc, body)
    IN (Returned /\ ~text.empty /\ StaticParseOk
        /\ Len(secs) >= 1 /\ TotalTextLen(secs) >= MinTextLen) =>
          /\ calls = <<"static">>
          /\ js_result = NoJs
          /\ response.result.sections = secs
          /\ (Len(text.doc.els) = 3
              /\ {text.doc.els[i].tag : i \in 1..3} = {"nav", "main", "footer"})
                => [i \in 1..Len(secs) |-> secs[i].type] = <<"nav", "section", "footer">>

\* C9 witness: the scenario's page, answered
C9_Witness ==
    /\ Returned
    /\ StaticParseOk
    /\ ~text.empty
    /\ text.doc.els = <<FooterA, MainBig, NavA>>

\* C10 (as claimed): whenever the controller escalates to the full tier, the
\* full tier's browser session is run.
C10_FullTierRuns == "full" \in Range(calls) => "full" \in Range(entered)

\* the tier result the controller holds is insufficient or carries an error
\* (the test of main.py:166-167)
TierResultFails == TotalTextLen(js_result.sections) < MinTextLen \/ js_result.errors /= <<>>

\* C11 (as claimed): a request on which the full tier was attempted and left
\* an insufficient result or an error goes on to the hard tier; no request
\* ends at the full tier with such a result.
C11_HardAfterFull ==
    (pc \in {"merge", "ensure", "done"} /\ "full" \in Range(calls) /\ TierResultFails)
        => "hard" \in Range(calls)

\* the result the light tier returned
LightResult == tier_results[1]

\* the condition of C12 on a tier result: insufficient, or an error message
\* that contains a blocking keyword in any case
LightMustEscalate(js) ==
    \/ Len(js.sections) = 0
    \/ TotalTextLen(js.sections) < MinTextLen
    \/ \E i \in 1..Len(js.errors) :
          \E kw \in {"403", "blocked", "access denied"} :
              Contains(kw, lower(js.errors[i].message))

\* C12: once the light tier has returned, the full tier is called if and
\* only if the light result is insufficient or one of its error messages
\* contains "403", "blocked" or "access denied" in any case; otherwise the
\* request ends with the light result merged and no further tier called.
C12_LightThenFullIff ==
    /\ pc = "escalate" => (calls = <<"static", "light">> /\ LightMustEscalate(LightResult))
    /\ (pc \in {"merge", "ensure", "done"} /\ "light" \in Range(calls)) =>
          ("full" \in Range(calls) <=> LightMustEscalate(LightResult))
    /\ (pc = "done" /\ "light" \in Range(calls) /\ ~LightMustEscalate(LightResult)) =>
          /\ calls = <<"static", "light">>
          /\ js_result = LightResult
          /\ response.result = MergeJs(snap, LightResult)

\* C12 witness: a light result with enough text whose one error message has a
\* blocking keyword in upper case, after which the full tier was called
C12_Witness ==
    /\ pc = "done"
    /\ "full" \in Range(calls)
    /\ TotalTextLen(LightResult.sections) >= MinTextLen
    /\ LightResult.errors = <<RenderError(MsgBlocked)>>

\* C12 witness (other direction): a sufficient light result with an error
\* message without keyword, returned without a further tier
C12_WitnessDone ==
    /\ pc = "done"
    /\ calls = <<"static", "light">>
    /\ LightResult.errors = <<RenderError(MsgTimeout)>>

\* the errors of phase fetch in an error list
FetchErrors(errors) == {i \in 1..Len(errors) : errors[i].phase = "fetch"}

\* the first GET was answered 403 and the retry 200 with a non-empty body
RetrySucceeded ==
    /\ Len(gets) = 2
    /\ gets[1].status = "403"
    /\ gets[2].status = "200"
    /\ ~gets[2].body.empty

\* C13: when the first GET is answered 403 and the retry 200 with a
\* non-empty body, the static stage hands the retry's body to the parser, and
\* neither the accumulated nor the returned result has an error of phase fetch.
C13_RetryOn403Succeeds ==
    RetrySucceeded =>
        /\ text = gets[2].body
        /\ FetchErrors(result.errors) = {}
        /\ Returned => FetchErrors(response.result.errors) = {}

\* C13 witness: such a request, answered from the static stage alone
C13_Witness == RetrySucceeded /\ Returned /\ calls = <<"static">>

\* neither the static parse nor a browser tier has yielded a section: the
\* accumulated result had none when the tier result was merged, and no tier
\* that ran returned one
NoSectionAnywhere ==
    /\ js_result /= NoJs
    /\ snap.sections = <<>>
    /\ js_result.sections = <<>>
    /\ \A i \in 1..Len(tier_results) : tier_results[i].sections = <<>>

\* C14: when neither the static parse nor any browser tier yields a section,
\* the returned result has exactly one section, with truncated true and
\* empty text, and exactly one error of phase fallback.
C14_PlaceholderAndFallback ==
    (Returned /\ NoSectionAnywhere) =>
        LET res == response.result
        IN /\ Len(res.sections) = 1
           /\ res.sections[1].truncated = TRUE
           /\ res.sections[1].text = 0
           /\ res.sections[1].rawHtml = EmptyStr
           /\ Cardinality({i \in 1..Len(res.errors) : res.errors[i].phase = "fallback"}) = 1

\* C14 witness: an empty static document whose light rendering, obtained
\* without an error, is empty as well
C14_Witness ==
    /\ Returned
    /\ NoSectionAnywhere
    /\ ~text.empty
    /\ Len(tier_results) = 1
    /\ tier_results[1].errors = <<>>

\* C15: no browser tier returns with its browser, its context or its driver
\* still open, whichever call raised on the way.
C15_SessionClosedOnReturn ==
    pc = "t_returned" =>
        /\ session.browser /= "open"
        /\ session.context /= "open"
        /\ session.playwright /= "started"

\* C15 witness: a full tier that returned after a raise on a later page of
\* the pagination, with the browser and the context it had opened closed
C15_Witness ==
    /\ pc = "t_returned"
    /\ frame.fn = "full"
    /\ frame.exc /= None
    /\ frame.depth >= 1
    /\ session.browser = "closed"
    /\ session.context = "closed"

\* the fingerprints of a section list
Fingerprints(sections) == {Fingerprint(sections[i]) : i \in 1..Len(sections)}

\* C16 (as claimed): every section a browser tier extracted during the
\* request is in the returned result, up to the deduplication by
\* fingerprint, also when a later tier ran after that tier.
C16_TierSectionsMerged ==
    Returned =>
        \A i \in 1..Len(tier_results) :
            Fingerprints(tier_results[i].sections)
                \subseteq Fingerprints(response.result.sections)

\* C17 (as claimed): every error a browser tier recorded in its result
\* during the request is in the returned error list with its phase tag, also
\* when a later tier ran after that tier.
C17_TierErrorsKept ==
    Returned =>
        \A i \in 1..Len(tier_results) :
            \A j \in 1..Len(tier_results[i].errors) :
                \E k \in 1..Len(response.result.errors) :
                    /\ response.result.errors[k].message = tier_results[i].errors[j].message
                    /\ response.result.errors[k].phase = tier_results[i].errors[j].phase

\* C18: in every interleaving of the concurrent requests, every browser
\* instance is driven only by the request that launched it, no two requests
\* hold the same browser or the same result dictionary, and every request
\* is answered as it would be when run alone in the same world.
C18_RequestsIsolated ==
    /\ \A b \in 1..Len(browsers) : browsers[b].users \subseteq {browsers[b].owner}
    /\ \A r1, r2 \in Requests :
          r1 /= r2 =>
              /\ reqs[r1].browser /= 0 => reqs[r1].browser /= reqs[r2].browser
              /\ reqs[r1].result /= 0 => reqs[r1].result /= reqs[r2].result
    /\ \A r \in Requests :
          reqs[r].pc = "done" =>
              reqs[r].response = RunAlone(reqs[r].body, reqs[r].world)

\* C18 witness: two requests inside their light tiers at the same time, each
\* driving a browser of its own
C18_Witness ==
    /\ reqs[1].pc = "light_exit"
    /\ reqs[2].pc = "light_exit"
    /\ browsers[reqs[1].browser].open
    /\ browsers[reqs[2].browser].open

\* C18 witness (end): both requests answered after their tiers overlapped
C18_WitnessDone ==
    /\ \A r \in Requests : reqs[r].pc = "done" /\ reqs[r].response.kind = "result"
    /\ Len(browsers) >= 2
    /\ browsers[1].owner /= browsers[2].owner

\* the sections the static stage left in the accumulated result
StaticSections ==
    IF pc \in {"ensure", "done"} /\ js_result /= NoJs THEN snap.sections
    ELSE result.sections

NavRetryRule ==
    \A i \in 1..Len(session.navs) :
        LET n == session.navs[i]
        IN /\ (n.wait_until = "networkidle" /\ ~n.ok) =>
                 IF i = Len(session.navs) THEN pc = "t_goto_load"
                 ELSE session.navs[i + 1] \in {Nav(n.url, "load", ok) : ok \in BOOLEAN}
           /\ n.wait_until = "load" =>
                 (i > 1 /\ session.navs[i - 1] = Nav(n.url, "networkidle", FALSE))

\* the tier's last navigation was the retry with load, and it failed
RetryFailed ==
    /\ session.navs /= <<>>
    /\ session.navs[Len(session.navs)].wait_until = "load"
    /\ ~session.navs[Len(session.navs)].ok

\* the sections of the first n pages of the site
SectionsOfPages(n) ==
    Flatten([j \in 1..n |-> parse_sections_from_soup(site[j].doc, site[j].url)])

C20_WitnessLaterPage ==
    /\ pc = "t_returned"
    /\ RetryFailed
    /\ frame.fn = "full"
    /\ frame.depth = 1
    /\ js_result.sections /= <<>>

\* the sections of the page the tier was called for
SeedSections == parse_sections_from_soup(site[1].doc, site[1].url)

\* C21 (as claimed): in every tier, when the only calls that raised were
\* evaluate calls of the scrolling or clicks, the tier returns without an
\* error and with the sections of the rendered document; a tier whose
\* navigation failed on its first page returns without sections.
C21_SubstepFailureOnlySkips ==
    /\ (/\ pc = "t_returned"
        /\ session.failed /= <<>>
        /\ Range(session.failed) \subseteq {"evaluate", "click"}) =>
          /\ js_result.errors = <<>>
          /\ IsPrefix(SeedSections, js_result.sections)
          /\ frame.fn /= "full" => js_result.sections = SeedSections
    /\ (pc = "t_returned" /\ RetryFailed /\ frame.depth = 0) =>
          js_result.sections = <<>>

\* the heights of the document of the page that was scrolled last, after
\* each scroll performed on it, and before the first
LastScrolled == session.scrolled[Len(session.scrolled)]

HeightBefore(n) == IF n = 1 THEN HeightAfter(ShownPage.scroll, 0) ELSE LastScrolled[n - 1]

\* scroll number n of the last page left the document height as it was
NoChange(n) == LastScrolled[n] = HeightBefore(n)

\* the scrolls performed on all pages so far
ScrollsPerformed == SumSeq([j \in 1..Len(session.scrolled) |-> Len(session.scrolled[j])])

\* C22 (as claimed): smart_scroll performs at most max_scrolls scrolls and
\* counts each scroll performed once; when no evaluate raised and it stopped
\* before max_scrolls, the last two scrolls both left the height unchanged.
C22_StopsAfterTwoUnchanged ==
    /\ js_result /= NoJs /\ session.scrolled /= <<>> =>
          /\ js_result.interactions.scrolls = ScrollsPerformed
          /\ \A j \in 1..Len(session.scrolled) :
                Len(session.scrolled[j]) <= TierMaxScrolls(frame.fn)
    /\ (/\ pc \in {"t_click", "t_content"}
        /\ frame.fn \in {"light", "full"}
        /\ "evaluate" \notin Range(session.failed)
        /\ Len(LastScrolled) < TierMaxScrolls(frame.fn)) =>
          /\ Len(LastScrolled) >= 2
          /\ NoChange(Len(LastScrolled))
          /\ NoChange(Len(LastScrolled) - 1)


\* C23 (as claimed): in a run of the full tier the clicks performed are the
\* clicks recorded, over all pages there are never more than the cap, no
\* entry is added for an element without a box or for a click that raised,
\* and a click that raised does not end the tier.
C23_ClicksWithinCap ==
    frame.fn = "full" =>
        /\ js_result.interactions.clicks = session.clicked
        /\ Len(js_result.interactions.clicks) <= FullClicks
        /\ \A j \in 1..Len(js_result.interactions.clicks) :
              /\ HasBox(js_result.interactions.clicks[j])
              /\ ~ClickRaises(js_result.interactions.clicks[j])
        /\ (pc = "t_returned" /\ Range(session.failed) \subseteq {"click"}) =>
              js_result.errors = <<>>


\* C24 (as claimed): in a run of the full tier no URL has its content read
\* twice, and the page the loop takes up after a pagination is never one it
\* has visited, whether the helper took it from the href or from the URL the
\* click led to.
C24_NoPageTwice ==
    frame.fn = "full" =>
        /\ NoDuplicates(session.extracted)
        /\ (pc = "t_loop" /\ frame.depth >= 1) =>
              frame.current \notin frame.visited_pages


\* the gotos of the tier's loop that opened a page
PagesOpened == {j \in 1..Len(session.navs) : session.navs[j].ok}

C26_HrefFollowedWithoutClick ==
    /\ \A j \in 1..Len(session.pag) :
          session.pag[j].call = "click" => ~session.pag[j].href
    /\ (pc = "t_loop" /\ frame.depth >= 1) =>
          /\ session.pag /= <<>>
          /\ session.pag[Len(session.pag)].call = "goto"


\* the static fetch failed with the status st: the controller recorded the
\* failure first and went on with an empty body
FetchFailedWith(st) ==
    /\ text.empty
    /\ raised /= <<>>
    /\ raised[1] = error_obj(FetchFailedMsg(st), "fetch")

\* C27: one call of static_scrape sends at most two GETs, the second only
\* after a first that was answered 403 and with the browser-like headers; a
\* first GET answered with another error status is the only GET, and it and
\* a retry answered with an error status make the fetch fail.
C27_OneRetryOn403Only ==
    /\ Len(gets) <= 2
    /\ Len(gets) = 2 =>
          /\ gets[1].status = "403"
          /\ gets[1].headers = DefaultHeaders
          /\ gets[2].headers = BrowserHeaders
          /\ RaisesForStatus(gets[2].status) => FetchFailedWith(gets[2].status)
    /\ (gets /= <<>> /\ RaisesForStatus(gets[1].status) /\ gets[1].status /= "403") =>
          /\ Len(gets) = 1
          /\ FetchFailedWith(gets[1].status)

\* C27 witness: a request answered after a first GET with 403 and a retry
\* with 403 again
C27_Witness ==
    /\ Returned
    /\ Len(gets) = 2
    /\ gets[2].status = "403"
    /\ FetchFailedWith("403")

\* C27 witness (other status): a request answered after a single GET with 404
C27_WitnessNoRetry ==
    /\ Returned
    /\ Len(gets) = 1
    /\ gets[1].status = "404"
    /\ FetchFailedWith("404")


\* static_scrape raised: its last GET failed or was answered with an error
\* status
StaticRaised == gets /= <<>> /\ gets[Len(gets)].status /= "200"

\* the errors recorded so far, in the accumulated or in the returned result
ErrorsSoFar == IF Returned THEN response.result.errors ELSE result.errors

\* C28: after a static fetch that raised or returned an empty body the
\* result has the matching errors of phase fetch and the request goes on to
\* the light tier; the light tier is started exactly when the static result
\* has no section or less than 300 characters of text.
C28_FetchFailureGoesToLight ==
    "static" \in Range(calls) =>
        /\ StaticRaised =>
              /\ text.empty
              /\ error_obj(FetchFailedMsg(gets[Len(gets)].status), "fetch")
                    \in Range(ErrorsSoFar)
        /\ text.empty =>
              /\ error_obj("Static fetch returned empty body", "fetch")
                    \in Range(ErrorsSoFar)
              /\ pc \in {"ensure", "done"} => "light" \in Range(calls)
        /\ pc \in {"light", "escalate", "merge", "ensure", "done"} =>
              ((pc = "light" \/ "light" \in Range(calls))
                  <=> (\/ Len(StaticSections) = 0
                       \/ TotalTextLen(StaticSections) < MinTextLen))

\* C28 witness: a request whose static fetch raised, answered after the
\* light tier
C28_Witness ==
    /\ Returned
    /\ StaticRaised
    /\ "light" \in Range(calls)
    /\ Cardinality(FetchErrors(response.result.errors)) = 2

\* C28 witness (empty body): a 200 with an empty body, answered after the
\* light tier with its sections
C28_WitnessEmptyBody ==
    /\ Returned
    /\ ~StaticRaised
    /\ text.empty
    /\ "light" \in Range(calls)
    /\ Cardinality(FetchErrors(response.result.errors)) = 1


\* the entries of s at the places in P, in the order of s
AtPlaces(s, P) ==
    [m \in 1..Cardinality(P) |->
        s[CHOOSE j \in P : Cardinality({k \in P : k <= j}) = m]]

\* the places of the tier result's sections whose fingerprint is neither an
\* accumulated section's nor an earlier section's of the tier result
UnseenSections ==
    {j \in 1..Len(js_result.sections) :
        /\ Fingerprint(js_result.sections[j]) \notin Fingerprints(snap.sections)
        /\ \A k \in 1..(j - 1) :
              Fingerprint(js_result.sections[k]) /= Fingerprint(js_result.sections[j])}

\* C29: after a merge the section list is the accumulated list, unchanged,
\* followed by the tier result's sections with a fingerprint not seen
\* before, in the tier result's order.
C29_SectionsAppendOnly ==
    pc \in {"merged", "remerged"} =>
        result.sections = snap.sections \o AtPlaces(js_result.sections, UnseenSections)

\* C29 witness: a merge onto accumulated sections that appended one section
\* of the tier result and left out another
C29_Witness ==
    /\ pc = "merged"
    /\ snap.sections /= <<>>
    /\ UnseenSections /= {}
    /\ Cardinality(UnseenSections) < Len(js_result.sections)
    /\ \E j, k \in 1..Len(js_result.sections) :
          j < k /\ Fingerprint(js_result.sections[j]) = Fingerprint(js_result.sections[k])
                /\ j \in UnseenSections

\* the places of the tier result's pages that are neither an accumulated
\* page nor an earlier page of the tier result
UnseenPages ==
    {j \in 1..Len(js_result.interactions.pages) :
        /\ js_result.interactions.pages[j] \notin Range(snap.interactions.pages)
        /\ \A k \in 1..(j - 1) :
              js_result.interactions.pages[k] /= js_result.interactions.pages[j]}

\* C30: after a merge the click log is the accumulated log followed by the
\* tier's, the scroll counter the sum of the two, and the page list the
\* accumulated list followed by the tier's pages not seen before, in
\* first-seen order.
C30_InteractionsMerged ==
    pc \in {"merged", "remerged"} =>
        /\ result.interactions.clicks =
              snap.interactions.clicks \o js_result.interactions.clicks
        /\ result.interactions.scrolls =
              snap.interactions.scrolls + js_result.interactions.scrolls
        /\ result.interactions.pages =
              snap.interactions.pages
                 \o AtPlaces(js_result.interactions.pages, UnseenPages)
        /\ result.interactions.scrolls >= snap.interactions.scrolls

\* C30 witness: the second merge of a tier result with clicks, scrolls and a
\* page listed twice, onto what the first merge left
C30_Witness ==
    /\ pc = "remerged"
    /\ snap.interactions.clicks /= <<>>
    /\ snap.interactions.scrolls > 0
    /\ snap.interactions.pages /= <<>>
    /\ ~NoDuplicates(js_result.interactions.pages)
    /\ Len(result.interactions.clicks) = 2 * Len(js_result.interactions.clicks)

\* C30 witness (new page): a merge that appended a page to a non-empty list
C30_WitnessNewPage ==
    /\ pc \in {"merged", "remerged"}
    /\ snap.interactions.pages /= <<>>
    /\ UnseenPages /= {}

----------------------------------------------------------------------------
(* Truncation flag of returned sections *)

\* every element the static fetch or a browser tier can deliver
AllElements == Elements \cup RenderedElements \cup {MainAlt, DivText}

\* the serialized markups a section's rawHtml can be taken from: str(el) of
\* an element, or str(body) of a document in which no landmark element
\* gives a section
SourceMarkups ==
    {el.html : el \in AllElements}
       \cup {BodyHtml(Doc(Head0, e)) :
                e \in SeqsUpTo({el \in AllElements : el.tag \notin Range(landmark_tags)},
                               MaxEls)}

\* the markups longer than the bound whose first HtmlLimit characters are
\* the section's rawHtml
CutFrom(sec) ==
    {m \in SourceMarkups : m.len > HtmlLimit /\ Slice(m, HtmlLimit) = sec.rawHtml}

\* the section's rawHtml is a whole markup that fits the bound
KeptWhole(sec) ==
    \E m \in SourceMarkups : m.len <= HtmlLimit /\ m = sec.rawHtml

IsPlaceholder(sec) == sec.id = SecId("page", 0)

\* C31 (as stated): in every returned result, every section's truncated flag
\* is true exactly when its rawHtml was cut from a markup longer than
\* HtmlLimit characters, and no rawHtml is longer than HtmlLimit.
C31_TruncatedIffCut ==
    Returned =>
        \A i \in 1..Len(response.result.sections) :
            LET sec == response.result.sections[i]
            IN /\ sec.rawHtml.len <= HtmlLimit
               /\ sec.truncated <=> CutFrom(sec) /= {}

\* C31 (amended): the same for every section the segmentation engine
\* produced; the placeholder section has truncated true with an empty
\* rawHtml that was cut from nothing.
C31_TruncatedIffCutExceptPlaceholder ==
    Returned =>
        \A i \in 1..Len(response.result.sections) :
            LET sec == response.result.sections[i]
            IN /\ sec.rawHtml.len <= HtmlLimit
               /\ IF IsPlaceholder(sec)
                  THEN sec.truncated /\ sec.rawHtml = EmptyStr /\ CutFrom(sec) = {}
                  ELSE /\ sec.truncated <=> CutFrom(sec) /= {}
                       /\ ~sec.truncated <=> KeptWhole(sec)

\* C31 witness: a returned result with a section whose markup was cut and a
\* section whose markup was kept whole
C31_Witness ==
    /\ Returned
    /\ \E i, j \in 1..Len(response.result.sections) :
          /\ response.result.sections[i].truncated
          /\ CutFrom(response.result.sections[i]) /= {}
          /\ response.result.sections[i].rawHtml.len = HtmlLimit
          /\ ~response.result.sections[j].truncated
          /\ KeptWhole(response.result.sections[j])

\* C31 witness (placeholder): a returned result whose only section is the
\* placeholder
C31_WitnessPlaceholder ==
    /\ Returned
    /\ Len(response.result.sections) = 1
    /\ IsPlaceholder(response.result.sections[1])
    /\ response.result.sections[1].truncated

----------------------------------------------------------------------------
(* Fallbacks of the segmentation engine *)

\* the headings of the parsed document whose text is not empty
HeadingsWithText == {i \in 1..Len(HeadingOrder(text.doc)) : HeadingOrder(text.doc)[i].el.text > 0}

\* the markups of the parents of those headings
HeadingParents == {HeadingOrder(text.doc)[i].parent.html : i \in HeadingsWithText}

NoLandmarkSection == LandmarkSections(text.doc, body).sections = <<>>

\* C32: when the landmark loops yield no section and the document has h1-h3
\* headings with text, the parse returns one section per distinct parent of
\* such a heading, in document order, and no whole-body section; the
\* whole-body section is returned only when there is no such heading either.
C32_HeadingFallback ==
    (pc = "parse_returned" /\ NoLandmarkSection) =>
        IF HeadingsWithText /= {}
        THEN /\ Len(result.sections) = Cardinality(HeadingParents)
             /\ result.sections = scraper_parse_sections_from_soup(text.doc, body)
             /\ \A i \in 1..Len(result.sections) : result.sections[i].id /= SecId("body", 0)
        ELSE \A i \in 1..Len(result.sections) : result.sections[i].id = SecId("body", 0)

\* the landmark elements of the parsed document
Landmarks == Range(LandmarkOrder(text.doc))

\* C33: a parse of a document whose body has text returns at least one
\* section, also when every landmark element in it has empty text, and no
\* returned section has an empty text.
C33_SectionWheneverText ==
    pc = "parse_returned" =>
        /\ BodyText(text.doc) > 0 => result.sections /= <<>>
        /\ \A i \in 1..Len(result.sections) : result.sections[i].text > 0

\* C33 witness: a document with landmark elements, all of them without text,
\* and text elsewhere: the parse returned the whole-body section
C33_Witness ==
    /\ pc = "parse_returned"
    /\ Landmarks /= {}
    /\ \A el \in Landmarks : el.text = 0
    /\ BodyText(text.doc) > 0
    /\ Len(result.sections) = 1
    /\ result.sections[1].id = SecId("body", 0)

\* C33 witness (mixed): landmark elements with and without text: the parse
\* returned sections for those with text only
C33_WitnessMixed ==
    /\ pc = "parse_returned"
    /\ \E el \in Landmarks : el.text = 0
    /\ \E el \in Landmarks : el.text > 0
    /\ Len(result.sections) = Cardinality({el \in Landmarks : el.text > 0})

----------------------------------------------------------------------------
(* Section types *)

\* the tag of the element a section was made from: the first part of its id
TagOf(sec) == sec.id[1]

Headers == find_all(text.doc, "header")

\* the section was made from element el
MadeFrom(sec, el) ==
    /\ TagOf(sec) = el.tag
    /\ sec.rawHtml = Slice(el.html, HtmlLimit)
    /\ sec.text = el.text

\* C34: in the sections a parse returns, a nav element's section has type
\* nav, a footer's footer, a main's section, a section's or an article's
\* unknown; a header's section has type hero when the header is the first
\* header element of the document and unknown when it is a later one; at
\* most one section has type hero.
C34_TypeByTag ==
    pc = "parse_returned" =>
        /\ \A i \in 1..Len(result.sections) :
              LET sec == result.sections[i]
              IN /\ TagOf(sec) = "nav" => sec.type = "nav"
                 /\ TagOf(sec) = "footer" => sec.type = "footer"
                 /\ TagOf(sec) = "main" => sec.type = "section"
                 /\ TagOf(sec) \in {"section", "article"} => sec.type = "unknown"
                 /\ TagOf(sec) = "header" =>
                       sec.type = IF MadeFrom(sec, Headers[1]) THEN "hero" ELSE "unknown"
        /\ Cardinality({i \in 1..Len(result.sections) :
                           result.sections[i].type = "hero"}) <= 1

----------------------------------------------------------------------------
(* Interactions of a request the static stage answered *)

\* C35: a returned result whose static sections were sufficient has no
\* click, no scroll, the requested URL as its only page and no error of
\* phase render; every returned result has the requested URL as its url
\* field and as the first entry of its page list.
C35_StaticSufficientNoInteractions ==
    Returned =>
        LET res == response.result
        IN /\ ~Insufficient(StaticSections) =>
                 /\ res.interactions = [clicks |-> <<>>, scrolls |-> 0, pages |-> <<body>>]
                 /\ \A i \in 1..Len(res.errors) : res.errors[i].phase /= "render"
           /\ res.url = body
           /\ Len(res.interactions.pages) >= 1
           /\ res.interactions.pages[1] = body

\* C35 witness: a request answered from sufficient static sections, without
\* a browser tier
C35_Witness ==
    /\ Returned
    /\ ~Insufficient(StaticSections)
    /\ calls = <<"static">>
    /\ TotalTextLen(response.result.sections) >= MinTextLen

\* C35 witness (tiers): a returned result into which a tier result with
\* scrolls and a render error was merged
C35_WitnessTier ==
    /\ Returned
    /\ Insufficient(StaticSections)
    /\ response.result.interactions.scrolls > 0
    /\ \E i \in 1..Len(response.result.errors) : response.result.errors[i].phase = "render"

----------------------------------------------------------------------------
(* The fallback error and the placeholder *)

FallbackErrors(errors) == {i \in 1..Len(errors) : errors[i].phase = "fallback"}

\* C36: a returned result has an error of phase fallback exactly when its
\* section list is the single placeholder page-0; the placeholder is never
\* in a section list beside another section, and the accumulated result
\* never holds more than one fallback error.
C36_FallbackIffPlaceholder ==
    /\ Returned =>
          (FallbackErrors(response.result.errors) /= {}
              <=> /\ Len(response.result.sections) = 1
                  /\ IsPlaceholder(response.result.sections[1]))
    /\ (\E i \in 1..Len(result.sections) : IsPlaceholder(result.sections[i]))
          => Len(result.sections) = 1
    /\ Cardinality(FallbackErrors(result.errors)) <= 1

\* C36 witness: a returned result with the placeholder, whose fallback error
\* stands beside errors of other phases
C36_Witness ==
    /\ Returned
    /\ response.result.sections = <<PlaceholderSection(body)>>
    /\ Cardinality(FallbackErrors(response.result.errors)) = 1
    /\ Len(response.result.errors) >= 2

\* C36 witness (content): a returned result with errors and with sections,
\* none of them the placeholder, and no fallback error
C36_WitnessContent ==
    /\ Returned
    /\ Len(response.result.sections) >= 2
    /\ response.result.errors /= <<>>
    /\ FallbackErrors(response.result.errors) = {}


====
